---- MODULE Spec2Model ----
(***************************************************************************)
(* Thread-parallel outer/inner loop skeleton of the hand-written x86-64     *)
(* non-bonded kernels (nb_kernel030_x86_64_sse and its siblings            *)
(* nb_kernel232/312/030_x86_64_sse2, which share the same skeleton).        *)
(*                                                                         *)
(* Every worker thread runs the same routine on the same arguments.  One   *)
(* action of the model is the stretch of code that ends in one access to   *)
(* memory other threads can see (the work counter, faction[], fshift[],    *)
(* Vvdw[], *outeriter, *inneriter); the thread-local arithmetic before    *)
(* and after that access (stack slots, registers, reads of the read-only   *)
(* pair list) is part of the same action.  A read-modify-write of shared   *)
(* memory is two actions: the load(s) and the store(s).                    *)
(*                                                                         *)
(* Abstractions: a 3-component real vector is one integer, floating-point  *)
(* addition is integer addition, and the table interpolation is an         *)
(* integer stand-in (FScal, VV).  32-bit wrap-around of the counter is not *)
(* reachable within the bounds.                                            *)
(***************************************************************************)
EXTENDS Integers, Sequences, FiniteSets, TLC

\* ---- bounds -------------------------------------------------------------
MaxThreads == 2
MaxNri == 2
MaxPlans == 2   \* entries of plan[2][2][2] that are modelled
MaxDepth == 3   \* sections the caller of a YamlStrategy keeps open, root included
MaxItems == 2   \* entries of a functype array or of an interaction list
F_NRE == 2      \* interaction lists of a molecule type that are modelled

\* ---- program constants --------------------------------------------------
Chunk == 1      \* add ebx, 1  (work units claimed per compare-and-swap)
UNROLL == 4     \* SIMD width of the single-precision inner loop
DWidth == 2     \* j waters per iteration of the double-precision inner loop

AllThreads == 1..MaxThreads
NoThread == 0
BlockSize == UNROLL + 2
NjPattern == <<UNROLL + 1, 2, 0>>
natoms == MaxNri * BlockSize
Atoms == 0..(natoms - 1)
ShiftIdx == {0, 1}
Groups == {0, 1}
FailCap == MaxNri + MaxThreads + 1
Zero4 == [l \in 1..UNROLL |-> 0]

VARIABLES
  nthreads, nri, iinr, jindex, jjnr, shift, gid,   \* read-only arguments
  pos,           \* particle coordinates (read-only argument)
  privateF,      \* caller's discipline: one faction buffer per thread
  count,         \* *count, the shared work counter
  faction, fshift, Vvdw, outeriter, inneriter,     \* shared outputs
  pc, stack, regs,                                 \* per-thread state
  claimed, nproc, writers, fails, vstores,         \* history variables
  suspended,     \* the thread the scheduler has stopped for good, if any
  \* nb_kernel232 (water-water): one i water against the j waters of one
  \* inner iteration
  wq,            \* charge[] of the O and H sites and facel
  wjx,           \* pos[] of the sites of the j water of each lane
  wpath,         \* .nb232_unroll_loop or .nb232_dosingle
  wpc, wblk,     \* position: the site-pair block to do next
  vctot, wfi, wfj,   \* stack slots vctot, fixO..fixH2, fjxO..fjxH2
  wfaction,      \* faction[] of the sites of the j water of each lane
  \* the reciprocal square root of one squared distance
  rprec,         \* the kernel's precision: single (sse) or double (sse2)
  rexp,          \* decimal exponent of rsq
  rseed,         \* bound of the seed's relative error, in units of 1e-9
  rerr,          \* bound of the relative error of lu, in units of 1e-9
  riter,         \* Newton-Raphson iterations done
  rpc,           \* position in the sequence
  \* where one thread loads the attributes of the i particle(s)
  skernel,       \* nb030 (one i particle) or nb232 (water-water)
  satt,          \* type[] (nb030) or the charge class behind charge[] (nb232)
  sslot,         \* stack slot ntia (nb030) or qqOO (nb232)
  scount, sn,    \* the work counter and the claimed outer index n
  spc,           \* position
  sreads,        \* history: <<array, outer index used, counter at the read>>
  slog,          \* history: <<n, parameter applied to the pairs of entry n>>
  \* the table lookup of one pair (one lane)
  tVFtab,        \* VFtab[]: Y, F, G, H of the dispersion, then of the repulsion
  tin,           \* c6, c12, rinv, tabscale, Vvdwtot on entry, r*tabscale
  tn0, teps,     \* table index (n0 << 3) and offset eps
  tseg,          \* history: VV and FF of each segment evaluated
  tfscal,        \* stack slot fscal
  tVvdwtot,      \* stack slot Vvdwtot
  tfs,           \* xmm4 at the end: the scalar the distance vector is scaled by
  tpc,           \* position
  \* the energy-only kernel nb_kernel030nf, called with the same arguments
  nfcount,       \* its work counter
  nfVvdw, nfouteriter, nfinneriter,   \* its outputs
  nffaction, nffshift,                \* the force and shift-force arrays it is given
  nfpc, nfstack, nfregs,              \* per thread: position, stack slots, eax/xmm
  nfsync,        \* schedule: <<thread, pc, registers>> of the force-kernel
                 \* thread that takes the next step, as they were before it
  \* fft_fftw3.cpp: threads calling the FFT wrapper, each on its own handle
  fmutex,        \* big_fftw_mutex: the thread that holds it, or NoThread
  fpc,           \* per thread: where it is; inside an FFTW call at some labels
  fidx,          \* per thread: loop index over plan[][][]
  fplan,         \* per thread: the entries of fft->plan that are not null
  fobj,          \* per thread: the caller's handle, "null" or "set"
  fcaller,       \* per thread: who called gmx_fft_destroy
  fret,          \* per thread: the value the call returned, "none" inside a call
  falloc,        \* per thread: the blocks fftw_malloc gave to the current call
  ffreed,        \* per thread: how often the current call passed each block to fftw_free
  \* yaml_strategy.cpp: one YamlStrategy and its caller
  ystack,        \* componentsStack, bottom first; a component is a number
  yframes,       \* the operations that are running, outermost first
  ypc,           \* "unused", "live", "destroyed", "assert_failed" or "crashed"
  yopen,         \* history: sections and lists the caller opened and has not closed
  ybad,          \* history: the caller closed a section it had not opened
  yret,          \* history: the operation that returned last, the stack before and after
  wlog           \* history: the site-pair blocks done

water == <<wq, wjx, wpath, wpc, wblk, vctot, wfi, wfj, wfaction, wlog>>
rsqrt == <<rprec, rexp, rseed, rerr, riter, rpc>>
setup == <<skernel, satt, sslot, scount, sn, spc, sreads, slog>>
spline == <<tVFtab, tin, tn0, teps, tseg, tfscal, tVvdwtot, tfs, tpc>>
nfk == <<nfcount, nfVvdw, nfouteriter, nfinneriter, nffaction, nffshift,
         nfpc, nfstack, nfregs, nfsync>>
fftw == <<fmutex, fpc, fidx, fplan, fobj, fcaller, fret, falloc, ffreed>>
yaml == <<ystack, yframes, ypc, yopen, ybad, yret>>
extra == <<spline, nfk, fftw, yaml>>
lists == <<nthreads, nri, iinr, jindex, jjnr, shift, gid, privateF>>
inputs == <<lists, pos>>
shared == <<count, faction, fshift, Vvdw, outeriter, inneriter>>
locals == <<pc, stack, regs>>
history == <<claimed, nproc, writers, fails, vstores>>
vars == <<inputs, shared, locals, history, suspended, water, rsqrt, setup, extra>>

Threads == 1..nthreads

\* ---- pair lists handed to the kernel -----------------------------------
NjOf(sel, k) == NjPattern[((k + sel) % Len(NjPattern)) + 1]

RECURSIVE JStart(_, _)
JStart(sel, k) == IF k = 0 THEN 0 ELSE JStart(sel, k - 1) + NjOf(sel, k - 1)

EntryOf(sel, N, q) ==
  CHOOSE k \in 0..(N - 1) : JStart(sel, k) <= q /\ q < JStart(sel, k + 1)

InitForce(p) == p + 1
InitFshift(s) == s + 1
InitVvdw(g) == g + 1

InitInputs(priv, Strides, Sels, Mods) ==
  \E T \in 1..MaxThreads, N \in 0..MaxNri, st \in Strides,
     sel \in Sels, ng \in Mods, ns \in Mods :
    /\ nthreads = T
    /\ nri = N
    /\ iinr = [k \in 0..(N - 1) |-> k * st]
    /\ jindex = [k \in 0..N |-> JStart(sel, k)]
    /\ jjnr = [q \in 0..(JStart(sel, N) - 1) |->
                 LET k == EntryOf(sel, N, q) IN k * st + 1 + (q - JStart(sel, k))]
    /\ shift = [k \in 0..(N - 1) |-> k % ns]
    /\ gid = [k \in 0..(N - 1) |-> k % ng]
    /\ privateF = priv

\* untranslated coordinate of particle p, and the caller's pos[] array holding
\* every coordinate moved by the same offset
Pos(p) == p
InitPos(off) == pos = [p \in Atoms |-> Pos(p) + off]

\* ---- nb_kernel232: sites, lanes and inputs --------------------------------
WSites == <<"O", "H1", "H2">>
SiteSet == {WSites[i] : i \in 1..Len(WSites)}
DLanes == 1..DWidth
\* lanes the instructions of a path work on: pd on both, sd on the low one
Active(path) == IF path = "unroll_loop" THEN DLanes ELSE {1}
\* coordinates: site offsets inside a water, and the i water at the origin
SiteOff(st) == CASE st = "O" -> 0 [] st = "H1" -> 1 [] st = "H2" -> 3
WIx(st) == SiteOff(st)
WCharges == {<<-2, 1>>, <<-2, 5>>, <<3, 1>>, <<3, 5>>}
WFacel == {1, 2}
JBases == {7, 12}
\* values the stack slots and the force array hold from earlier iterations
StaleVc(l) == 10 * l
StaleFi(st, l) == SiteOff(st) + l
StaleFj(st, l) == 9 * l
InitFj(l, st) == 20 * l + SiteOff(st)

WaterIdle ==
  /\ wq = [O |-> 0, H |-> 0, facel |-> 0]
  /\ wjx = [l \in DLanes |-> [st \in SiteSet |-> 0]]
  /\ wpath = "unroll_loop"
  /\ wpc = "idle"
  /\ wblk = 0
  /\ vctot = [l \in DLanes |-> 0]
  /\ wfi = [st \in SiteSet |-> [l \in DLanes |-> 0]]
  /\ wfj = [st \in SiteSet |-> [l \in DLanes |-> 0]]
  /\ wfaction = [l \in DLanes |-> [st \in SiteSet |-> 0]]
  /\ wlog = <<>>

\* the squared distances the accuracy is stated for: 1e-6 .. 1e4
RsqExps == (0 - 6)..4
Precisions == {"single", "double"}
RsqrtIdle ==
  /\ rprec = "single" /\ rexp = 0 /\ rseed = 0 /\ rerr = 0 /\ riter = 0 /\ rpc = "idle"
RsqrtStart ==
  /\ rprec \in Precisions /\ rexp \in RsqExps
  /\ rseed = 0 /\ rerr = 0 /\ riter = 0 /\ rpc = "seed"

\* attributes of the particles: all alike, or alternating from one outer
\* entry's block of particles to the next
AttrVals == {0, 1}
Kernels == {"nb030", "nb232"}
SetupIdle ==
  /\ skernel = "nb030" /\ satt = [p \in Atoms |-> 0] /\ sslot = 0
  /\ scount = 0 /\ sn = 0 /\ spc = "idle" /\ sreads = {} /\ slog = {}
SetupStart ==
  /\ skernel \in Kernels
  /\ \E a \in AttrVals, alt \in {0, 1} :
       satt = [p \in Atoms |-> (a + alt * (p \div BlockSize)) % 2]
  /\ sslot = 0 /\ scount = 0 /\ sn = 0 /\ spc = "prologue" /\ sreads = {} /\ slog = {}

\* the table lookup: idle, or about to evaluate one pair; the dispersion
\* coefficients of a table point are negative, the repulsion ones positive.
\* Lengths are in
\* units of 1/EpsUnit of the table spacing, so that the offset eps and the
\* spline polynomial are integer valued and the arithmetic is exact.
NPoints == 2
EpsUnit == 3
TabSeeds == {1, 2, 3}
TabFamily ==
  {[i \in 0..(8 * NPoints - 1) |->
      (IF i % 8 < 4 THEN 0 - 1 ELSE 1) * (((sd * (i + 1) + i * i) % 4) + 1)] : sd \in TabSeeds}
SplineIdle ==
  /\ tVFtab = [i \in 0..(8 * NPoints - 1) |-> 0]
  /\ tin = [c6 |-> 0, c12 |-> 0, rinv |-> 0, tsc |-> 0, V0 |-> 0, rt |-> 0]
  /\ tn0 = 0 /\ teps = 0 /\ tseg = <<>> /\ tfscal = 0 /\ tVvdwtot = 0 /\ tfs = 0
  /\ tpc = "idle"
SplineStart ==
  /\ tVFtab \in TabFamily
  /\ tin \in [c6 : {1, 2}, c12 : {1, 3}, rinv : {1, 2}, tsc : {1}, V0 : {0, 5},
              rt : 0..(NPoints * EpsUnit - 1)]
  /\ tn0 = 0 /\ teps = 0 /\ tseg = <<>> /\ tfscal = 0 /\ tVvdwtot = tin.V0 /\ tfs = 0
  /\ tpc = "index"
\* the energy-only kernel: not called, or entered with the arguments and
\* the output arrays of the force kernel's call
NfRegs0 == [eax |-> 0, jnr |-> <<>>, xmm |-> <<>>, tx |-> <<>>]
NfStack0 ==
  [n |-> 0, nn1 |-> 0, nouter |-> 0, ninner |-> 0, innerk |-> 0,
   innerjjnr |-> 0, is3 |-> 0, ii3 |-> 0, Vvdwtot |-> Zero4]
NfIdle ==
  /\ nfcount = 0
  /\ nfVvdw = [g \in Groups |-> 0]
  /\ nfouteriter = 0 /\ nfinneriter = 0
  /\ nffaction = [p \in Atoms |-> 0]
  /\ nffshift = [sh \in ShiftIdx |-> 0]
  /\ nfpc = [t \in AllThreads |-> "unused"]
  /\ nfstack = [t \in AllThreads |-> NfStack0]
  /\ nfregs = [t \in AllThreads |-> [eax |-> 0, xmm |-> <<>>]]
  /\ nfsync = <<NoThread, "unused", NfRegs0>>
NfStart ==
  /\ nfcount = 0
  /\ nfVvdw = [g \in Groups |-> InitVvdw(g)]
  /\ nfouteriter = 0 /\ nfinneriter = 0
  /\ nffaction = [p \in Atoms |-> InitForce(p)]
  /\ nffshift = [sh \in ShiftIdx |-> InitFshift(sh)]
  /\ nfpc = [t \in AllThreads |-> IF t <= nthreads THEN "threadloop" ELSE "unused"]
  /\ nfstack = [t \in AllThreads |-> NfStack0]
  /\ nfregs = [t \in AllThreads |-> [eax |-> 0, xmm |-> <<>>]]
  /\ nfsync = <<NoThread, "unused", NfRegs0>>
\* the handle fft and the temporary buffers p1 and p2 of a gmx_fft_init_* call
HeapBlocks == {"fft", "p1", "p2"}
\* the FFT wrapper: not used, or every thread about to call it
FftwIdle ==
  /\ fmutex = NoThread
  /\ fpc = [t \in AllThreads |-> "unused"]
  /\ fidx = [t \in AllThreads |-> 0]
  /\ fplan = [t \in AllThreads |-> {}]
  /\ fobj = [t \in AllThreads |-> "null"]
  /\ fcaller = [t \in AllThreads |-> "api"]
  /\ fret = [t \in AllThreads |-> "none"]
  /\ falloc = [t \in AllThreads |-> {}]
  /\ ffreed = [t \in AllThreads |-> [b \in HeapBlocks |-> 0]]
FftwStart ==
  /\ fmutex = NoThread
  /\ fpc = [t \in AllThreads |-> "idle"]
  /\ fidx = [t \in AllThreads |-> 0]
  /\ fplan = [t \in AllThreads |-> {}]
  /\ fobj = [t \in AllThreads |-> "null"]
  /\ fcaller = [t \in AllThreads |-> "api"]
  /\ fret = [t \in AllThreads |-> "none"]
  /\ falloc = [t \in AllThreads |-> {}]
  /\ ffreed = [t \in AllThreads |-> [b \in HeapBlocks |-> 0]]
\* the YAML dump strategy: not used, or just constructed (the constructor
\* pushes the root component)
NoReturn == [op |-> "none", before |-> <<>>, after |-> <<>>]
YamlIdle ==
  /\ ystack = <<>> /\ yframes = <<>> /\ ypc = "unused"
  /\ yopen = 0 /\ ybad = FALSE /\ yret = NoReturn
YamlStrategy ==
  /\ ystack = <<0>> /\ yframes = <<>> /\ ypc = "live"
  /\ yopen = 0 /\ ybad = FALSE /\ yret = NoReturn
ExtraIdle == SplineIdle /\ NfIdle /\ FftwIdle /\ YamlIdle

WaterStart ==
  /\ \E q \in WCharges, fl \in WFacel, b \in JBases, path \in {"unroll_loop", "dosingle"} :
       /\ wq = [O |-> q[1], H |-> q[2], facel |-> fl]
       /\ wjx = [l \in DLanes |-> [st \in SiteSet |-> b + 5 * (l - 1) + SiteOff(st)]]
       /\ wpath = path
  /\ wpc = "block"
  /\ wblk = 1
  /\ vctot = [l \in DLanes |-> StaleVc(l)]
  /\ wfi = [st \in SiteSet |-> [l \in DLanes |-> StaleFi(st, l)]]
  /\ wfj = [st \in SiteSet |-> [l \in DLanes |-> StaleFj(st, l)]]
  /\ wfaction = [l \in DLanes |-> [st \in SiteSet |-> InitFj(l, st)]]
  /\ wlog = <<>>

InitLocal ==
  /\ count = 0
  /\ faction = [b \in AllThreads |-> [p \in Atoms |-> IF b = 1 THEN InitForce(p) ELSE 0]]
  /\ fshift = [s \in ShiftIdx |-> InitFshift(s)]
  /\ Vvdw = [g \in Groups |-> InitVvdw(g)]
  /\ outeriter = 0
  /\ inneriter = 0
  /\ pc = [t \in AllThreads |-> IF t <= nthreads THEN "threadloop" ELSE "unused"]
  /\ stack = [t \in AllThreads |->
               [n |-> 0, nn1 |-> 0, nouter |-> 0, ninner |-> 0, innerk |-> 0,
                innerjjnr |-> 0, is3 |-> 0, ii3 |-> 0, fix |-> Zero4, Vvdwtot |-> Zero4]]
  /\ regs = [t \in AllThreads |-> [eax |-> 0, jnr |-> <<>>, xmm |-> <<>>, tx |-> <<>>]]
  /\ claimed = {}
  /\ nproc = [k \in 0..(MaxNri - 1) |-> 0]
  /\ writers = [loc \in {} |-> {}]
  /\ fails = [t \in AllThreads |-> 0]
  /\ vstores = [t \in AllThreads |-> 0]
  /\ suspended = NoThread

InitState == InitLocal /\ WaterIdle /\ RsqrtIdle /\ SetupIdle /\ ExtraIdle

\* an invocation with an empty pair list
InitEmptyList ==
  /\ nthreads = 1
  /\ nri = 0
  /\ iinr = [k \in {} |-> 0]
  /\ jindex = [k \in 0..0 |-> 0]
  /\ jjnr = [q \in {} |-> 0]
  /\ shift = [k \in {} |-> 0]
  /\ gid = [k \in {} |-> 0]
  /\ privateF = FALSE

AllSels == 0..(Len(NjPattern) - 1)
Init == InitInputs(FALSE, {1, BlockSize}, AllSels, {1, 2}) /\ InitPos(0) /\ InitState
InitPriv == InitInputs(TRUE, {1, BlockSize}, AllSels, {1, 2}) /\ InitPos(0) /\ InitState
InitSched == InitInputs(FALSE, {BlockSize}, {0}, {2}) /\ InitPos(0) /\ InitState

\* one outer entry with every inner-loop length up to two batches less one, so
\* that every remainder of the unrolled loop occurs with and without a batch
\* before it; all coordinates moved by one of the offsets
TailNj == 0..(2 * UNROLL - 1)
Offsets == {0, 3}
InitTail ==
  /\ \E T \in 1..MaxThreads, nj \in TailNj, sh \in ShiftIdx, off \in Offsets :
       /\ nthreads = T
       /\ nri = 1
       /\ iinr = [k \in 0..0 |-> 0]
       /\ jindex = [k \in 0..1 |-> k * nj]
       /\ jjnr = [q \in 0..(nj - 1) |-> q + 1]
       /\ shift = [k \in 0..0 |-> sh]
       /\ gid = [k \in 0..0 |-> 0]
       /\ privateF = FALSE
       /\ InitPos(off)
  /\ InitState

\* one thread; outer entries of the same i particle whose j partners repeat
\* with a period: a period below the batch width puts a particle twice into
\* one batch, a longer one repeats it in a later batch or not at all
Periods == {2, 3, UNROLL, 2 * UNROLL}
InitBatch ==
  /\ \E N \in 1..MaxNri, nj \in TailNj \ {0}, m \in Periods :
       /\ nthreads = 1
       /\ nri = N
       /\ iinr = [k \in 0..(N - 1) |-> 0]
       /\ jindex = [k \in 0..N |-> k * nj]
       /\ jjnr = [q \in 0..(N * nj - 1) |-> 1 + ((q % nj) % m)]
       /\ shift = [k \in 0..(N - 1) |-> k % 2]
       /\ gid = [k \in 0..(N - 1) |-> 0]
       /\ privateF = FALSE
       /\ InitPos(0)
  /\ InitState

\* ---- arithmetic of one pair (integer stand-ins) -------------------------
ShiftVec(s) == s * natoms
FScal(rsq) == 1 + (rsq % 3)
VV(rsq) == 1 + (rsq % 2)
Dx(is, ii, jnr) == (ShiftVec(is) + Pos(ii)) - Pos(jnr)
PairF(is, ii, jnr) == LET dx == Dx(is, ii, jnr) IN dx * FScal(dx * dx)
PairV(is, ii, jnr) == LET dx == Dx(is, ii, jnr) IN VV(dx * dx)

\* ---- the same arithmetic as the kernel does it, lane by lane -------------
\* dr = (shiftvec[is] + pos[ii]) - pos[jnr], read from the caller's pos[]
KDxSum(is, ii, jnr) == (ShiftVec(is) + pos[ii]) + pos[jnr]
KDx(is, ii, jnr) == (ShiftVec(is) + pos[ii]) - pos[jnr]
\* mulps by the c6/c12 vector
Masked(mask, v) == [l \in 1..UNROLL |-> mask[l] * v[l]]
\* c6 and c12 with the lanes of absent partners left as loaded
PairMaskAll == <<1, 1, 1, 1>>
\* .nb030_dopair: movlhps xmm4/xmm6, xmm7 clears the upper two lanes of c6/c12
PairMask == <<1, 1, 0, 0>>
\* .nb030_dosingle: shufps 252/253 of (c6, c12, 0, 0) keeps lane 0 only
SingleMask == <<1, 0, 0, 0>>
\* what a lane without partner may hold after the table lookup
Junk == {1, 2}
\* shufps xmm, xmm, imm with both operands the same register
Shufps(v, imm) == [l \in 1..UNROLL |-> v[((imm \div (4 ^ (l - 1))) % 4) + 1]]
Lane0(v) == v[1]
AddPS(a, b) == [l \in 1..UNROLL |-> a[l] + b[l]]
AddSS(a, b) == [a EXCEPT ![1] = @ + b[1]]
\* every j partner of the batch gets the partial force of lane 0
UnrollSubLow(tx) == [l \in 1..UNROLL |-> Lane0(tx)]
\* subss of lane 0 after shufps 229, 234 and 255 of the partial force
UnrollSub(tx) ==
  LET t2 == Shufps(tx, 229)
      t3 == Shufps(t2, 234)
      t4 == Shufps(t3, 255)
  IN <<Lane0(tx), Lane0(t2), Lane0(t3), Lane0(t4)>>
\* a horizontal sum that forgets the upper two lanes
HSumLow(v) == v[1] + v[2]
HSum(v) == v[1] + v[2] + v[3] + v[4]

\* ---- the work counter ---------------------------------------------------
\* claims ten work units at once, as the comment in the source says
NextTicketTen(eax) == eax + 10
NextTicket(eax) == eax + Chunk
\* a plain store in place of the locked compare-and-swap
CmpXchgAlways(mem, eax) == TRUE
CmpXchgOk(mem, eax) == mem = eax
\* a failed compare-and-swap that does not reload the counter into eax
CmpXchgFailStale(mem, eax) == eax
CmpXchgFailEax(mem, eax) == mem
\* a clamp to the last index in place of the number of entries
ClampNn1Short(ebx, n_ri) == IF n_ri - ebx <= 0 THEN n_ri - 1 ELSE ebx
ClampNn1(ebx, n_ri) == IF n_ri - ebx <= 0 THEN n_ri ELSE ebx

\* ---- thread-local control flow -----------------------------------------
CheckSingle(k) == IF k % 2 = 1 THEN "dosingle_load" ELSE "fi_load"
\* .nb030_finish_inner without the test of bit 1
FinishInnerNoPair(k) == CheckSingle(k)
FinishInner(k) == IF (k \div 2) % 2 = 1 THEN "dopair_load1" ELSE CheckSingle(k)

\* the inner loop of the double-precision kernels: innerk = nj - 2 on entry,
\* a batch of two while innerk >= 0 ('sub innerk, 2 / jl'), then
\* .checksingle tests bit 0 of innerk as it stands (negative, two's complement)
RECURSIVE DPaths(_, _)
DPaths(k, innerk) ==
  IF innerk >= 0
  THEN <<<<"unroll_loop", k, DWidth>>>> \o DPaths(k + DWidth, innerk - DWidth)
  ELSE IF innerk % 2 = 1 THEN <<<<"dosingle", k, 1>>>> ELSE <<>>

\* the setup of an outer entry that leaves the i-force accumulator as it is
OuterSetupKeepFix(s, esi) ==
  LET nj == jindex[esi + 1] - jindex[esi] IN
  [s EXCEPT !.is3 = shift[esi], !.ii3 = iinr[esi],
            !.Vvdwtot = Zero4,
            !.innerjjnr = jindex[esi],
            !.ninner = @ + nj,
            !.innerk = IF nj - UNROLL >= 0 THEN nj - UNROLL ELSE nj]
\* the setup of an outer entry without the update of the inner-iteration count
OuterSetupNoCount(s, esi) ==
  LET nj == jindex[esi + 1] - jindex[esi] IN
  [s EXCEPT !.is3 = shift[esi], !.ii3 = iinr[esi],
            !.fix = Zero4, !.Vvdwtot = Zero4,
            !.innerjjnr = jindex[esi],
            !.innerk = IF nj - UNROLL >= 0 THEN nj - UNROLL ELSE nj]
OuterSetup(s, esi) ==
  LET nj == jindex[esi + 1] - jindex[esi] IN
  [s EXCEPT !.is3 = shift[esi], !.ii3 = iinr[esi],
            !.fix = Zero4, !.Vvdwtot = Zero4,
            !.innerjjnr = jindex[esi],
            !.ninner = @ + nj,
            !.innerk = IF nj - UNROLL >= 0 THEN nj - UNROLL ELSE nj]
OuterPc(esi) ==
  LET nj == jindex[esi + 1] - jindex[esi] IN
  IF nj - UNROLL >= 0 THEN "unroll_load" ELSE FinishInner(nj)

\* a thread that returns after its first work unit
AfterChunkQuit(n_ri, esi) == "end"
\* a thread that always asks for one more work unit
AfterChunkAgain(n_ri, esi) == "threadloop"
AfterChunk(n_ri, esi) == IF n_ri - esi = 0 THEN "end" ELSE "threadloop"
\* the array the j-force update goes through: rdi is reloaded with the
\* faction pointer before the update on every path
FjBaseStale(path) == IF path = "unroll" THEN "faction" ELSE "pos"
FjBase(path) == "faction"
\* the group index loaded once, for the first outer entry only
EnergySlotFirst(s) == gid[0]
EnergySlot(s) == gid[s.n]

FBuf(t) == IF privateF THEN t ELSE 1
Mark(loc, t) ==
  [l \in (DOMAIN writers) \cup {loc} |->
     IF l = loc THEN (IF l \in DOMAIN writers THEN writers[l] ELSE {}) \cup {t}
     ELSE writers[l]]
Bump(c) == IF c < FailCap THEN c + 1 ELSE c

\* a thread executes the instruction at label lbl unless the scheduler holds it
At(t, lbl) == t <= nthreads /\ suspended # t /\ pc[t] = lbl

\* ---- actions ------------------------------------------------------------
threadloop(t) ==
  /\ At(t, "threadloop")
  /\ regs' = [regs EXCEPT ![t].eax = count]
  /\ pc' = [pc EXCEPT ![t] = "spinlock"]
  /\ UNCHANGED <<water, rsqrt, setup, extra, inputs, shared, stack, history, suspended>>

cmpxchg(t) ==
  /\ At(t, "spinlock")
  /\ LET a == regs[t].eax
         ebx == NextTicket(a)
     IN IF CmpXchgOk(count, a)
        THEN LET hi == ClampNn1(ebx, nri)
                 s0 == [stack[t] EXCEPT !.n = a, !.nn1 = hi]
             IN /\ count' = ebx
                /\ claimed' = claimed \cup {[thr |-> t, nn0 |-> a, nn1 |-> hi]}
                /\ IF hi - a > 0
                   THEN /\ stack' = [stack EXCEPT ![t] =
                                       OuterSetup([s0 EXCEPT !.nouter = @ + (hi - a)], a)]
                        /\ pc' = [pc EXCEPT ![t] = OuterPc(a)]
                   ELSE /\ stack' = [stack EXCEPT ![t] = s0]
                        /\ pc' = [pc EXCEPT ![t] = "end"]
                /\ UNCHANGED regs
        ELSE /\ regs' = [regs EXCEPT ![t].eax = CmpXchgFailEax(count, a)]
             /\ UNCHANGED <<count, stack, pc, claimed>>
  /\ UNCHANGED <<water, rsqrt, setup, extra, inputs, faction, fshift, Vvdw, outeriter, inneriter,
                 nproc, writers, vstores, suspended>>

spinlock(t) == cmpxchg(t) /\ UNCHANGED fails

\* the same instruction, with the failed attempts of each thread tallied
spinlock_tally(t) ==
  /\ cmpxchg(t)
  /\ fails' = [fails EXCEPT ![t] = IF CmpXchgOk(count, regs[t].eax) THEN @ ELSE Bump(@)]

RECURSIVE Scatter(_, _, _, _, _)
Scatter(f, js, vals, sub, l) ==
  IF l > Len(js) THEN f
  ELSE Scatter([f EXCEPT ![js[l]] = vals[l] - sub[l]], js, vals, sub, l + 1)

RECURSIVE MarkAll(_, _, _, _, _)
MarkAll(w, kind, b, ps, t) ==
  IF ps = {} THEN w
  ELSE LET p == CHOOSE x \in ps : TRUE
           loc == <<kind, b, p>>
           w1 == [l \in (DOMAIN w) \cup {loc} |->
                    IF l = loc THEN (IF l \in DOMAIN w THEN w[l] ELSE {}) \cup {t} ELSE w[l]]
       IN MarkAll(w1, kind, b, ps \ {p}, t)

\* load and store of one j force slot through the base pointer in rdi
\* a batch that overwrites the j forces instead of updating them
LoadFjZero(base, b, j) == 0
LoadFj(base, b, j) == IF base = "faction" THEN faction[b][j] ELSE pos[j]
StoreFj(base, b, js, vals, sub, t) ==
  IF base = "faction"
  THEN /\ faction' = [faction EXCEPT ![b] = Scatter(@, js, vals, sub, 1)]
       /\ writers' = MarkAll(writers, "faction", b, {js[l] : l \in 1..Len(js)}, t)
       /\ pos' = pos
  ELSE /\ pos' = Scatter(pos, js, vals, sub, 1)
       /\ writers' = MarkAll(writers, "pos", 0, {js[l] : l \in 1..Len(js)}, t)
       /\ faction' = faction

unroll_load(t) ==
  /\ At(t, "unroll_load")
  /\ LET s == stack[t]
         js == [l \in 1..UNROLL |-> jjnr[s.innerjjnr + l - 1]]
         dx == [l \in 1..UNROLL |-> KDx(s.is3, s.ii3, js[l])]
         tx == [l \in 1..UNROLL |-> dx[l] * FScal(dx[l] * dx[l])]
         vv == [l \in 1..UNROLL |-> VV(dx[l] * dx[l])]
     IN /\ stack' = [stack EXCEPT ![t] =
                       [s EXCEPT !.innerjjnr = @ + UNROLL,
                                 !.Vvdwtot = AddPS(@, vv),
                                 !.fix = AddPS(@, tx)]]
        /\ regs' = [regs EXCEPT ![t].jnr = js, ![t].tx = tx,
                                ![t].xmm = [l \in 1..UNROLL |->
                                              LoadFj(FjBase("unroll"), FBuf(t), js[l])]]
  /\ pc' = [pc EXCEPT ![t] = "unroll_store"]
  /\ UNCHANGED <<water, rsqrt, setup, extra, inputs, shared, history, suspended>>

unroll_store(t) ==
  /\ At(t, "unroll_store")
  /\ LET s == stack[t]
         k == s.innerk - UNROLL
     IN /\ StoreFj(FjBase("unroll"), FBuf(t), regs[t].jnr, regs[t].xmm,
                   UnrollSub(regs[t].tx), t)
        /\ stack' = [stack EXCEPT ![t].innerk = IF k < 0 THEN k + UNROLL ELSE k]
        /\ pc' = [pc EXCEPT ![t] = IF k < 0 THEN FinishInner(k + UNROLL) ELSE "unroll_load"]
  /\ regs' = [regs EXCEPT ![t].jnr = <<>>, ![t].xmm = <<>>, ![t].tx = <<>>]
  /\ UNCHANGED <<water, rsqrt, setup, extra, lists, count, fshift, Vvdw, outeriter, inneriter,
                 claimed, nproc, fails, vstores, suspended>>

dopair_load1(t) ==
  /\ At(t, "dopair_load1")
  /\ \E g \in Junk :
       LET s == stack[t]
           js == <<jjnr[s.innerjjnr], jjnr[s.innerjjnr + 1]>>
           \* shufps 136/221 repeat the two partners in the upper lanes
           dx == [l \in 1..UNROLL |-> KDx(s.is3, s.ii3, js[((l - 1) % 2) + 1])]
           fs == Masked(PairMask, [l \in 1..UNROLL |->
                                     IF l <= 2 THEN FScal(dx[l] * dx[l]) ELSE g])
           vv == Masked(PairMask, [l \in 1..UNROLL |->
                                     IF l <= 2 THEN VV(dx[l] * dx[l]) ELSE g])
           tx == [l \in 1..UNROLL |-> dx[l] * fs[l]]
       IN /\ stack' = [stack EXCEPT ![t] =
                         [s EXCEPT !.innerjjnr = @ + 2,
                                   !.Vvdwtot = AddPS(@, vv),
                                   !.fix = AddPS(@, tx)]]
          /\ regs' = [regs EXCEPT ![t].jnr = js, ![t].tx = tx,
                                  ![t].xmm = <<LoadFj(FjBase("dopair"), FBuf(t), js[1])>>]
  /\ pc' = [pc EXCEPT ![t] = "dopair_store1"]
  /\ UNCHANGED <<water, rsqrt, setup, extra, inputs, shared, history, suspended>>

dopair_store1(t) ==
  /\ At(t, "dopair_store1")
  /\ StoreFj(FjBase("dopair"), FBuf(t), <<regs[t].jnr[1]>>, regs[t].xmm,
             <<Lane0(regs[t].tx)>>, t)
  /\ regs' = [regs EXCEPT ![t].xmm = <<>>]
  /\ pc' = [pc EXCEPT ![t] = "dopair_load2"]
  /\ UNCHANGED <<water, rsqrt, setup, extra, lists, count, fshift, Vvdw, outeriter, inneriter, stack,
                 claimed, nproc, fails, vstores, suspended>>

dopair_load2(t) ==
  /\ At(t, "dopair_load2")
  /\ regs' = [regs EXCEPT ![t].tx = Shufps(@, 225),
                          ![t].xmm = <<LoadFj(FjBase("dopair"), FBuf(t), regs[t].jnr[2])>>]
  /\ pc' = [pc EXCEPT ![t] = "dopair_store2"]
  /\ UNCHANGED <<water, rsqrt, setup, extra, inputs, shared, stack, history, suspended>>

dopair_store2(t) ==
  /\ At(t, "dopair_store2")
  /\ StoreFj(FjBase("dopair"), FBuf(t), <<regs[t].jnr[2]>>, regs[t].xmm,
             <<Lane0(regs[t].tx)>>, t)
  /\ pc' = [pc EXCEPT ![t] = CheckSingle(stack[t].innerk)]
  /\ regs' = [regs EXCEPT ![t].jnr = <<>>, ![t].xmm = <<>>, ![t].tx = <<>>]
  /\ UNCHANGED <<water, rsqrt, setup, extra, lists, count, fshift, Vvdw, outeriter, inneriter, stack,
                 claimed, nproc, fails, vstores, suspended>>

dosingle_load(t) ==
  /\ At(t, "dosingle_load")
  /\ \E g \in Junk :
       LET s == stack[t]
           j == jjnr[s.innerjjnr]
           \* movss leaves zero coordinates in the upper lanes
           dx == [l \in 1..UNROLL |->
                    IF l = 1 THEN KDx(s.is3, s.ii3, j) ELSE ShiftVec(s.is3) + pos[s.ii3]]
           fs == Masked(SingleMask, [l \in 1..UNROLL |->
                                       IF l = 1 THEN FScal(dx[l] * dx[l]) ELSE g])
           vv == Masked(SingleMask, [l \in 1..UNROLL |->
                                       IF l = 1 THEN VV(dx[l] * dx[l]) ELSE g])
           tx == [l \in 1..UNROLL |-> dx[l] * fs[l]]
       IN /\ stack' = [stack EXCEPT ![t] =
                         [s EXCEPT !.Vvdwtot = AddSS(@, vv),
                                   !.fix = AddSS(@, tx)]]
          /\ regs' = [regs EXCEPT ![t].jnr = <<j>>, ![t].tx = tx,
                                  ![t].xmm = <<LoadFj(FjBase("dosingle"), FBuf(t), j)>>]
  /\ pc' = [pc EXCEPT ![t] = "dosingle_store"]
  /\ UNCHANGED <<water, rsqrt, setup, extra, inputs, shared, history, suspended>>

dosingle_store(t) ==
  /\ At(t, "dosingle_store")
  /\ StoreFj(FjBase("dosingle"), FBuf(t), regs[t].jnr, regs[t].xmm,
             <<Lane0(regs[t].tx)>>, t)
  /\ regs' = [regs EXCEPT ![t].jnr = <<>>, ![t].xmm = <<>>, ![t].tx = <<>>]
  /\ pc' = [pc EXCEPT ![t] = "fi_load"]
  /\ UNCHANGED <<water, rsqrt, setup, extra, lists, count, fshift, Vvdw, outeriter, inneriter, stack,
                 claimed, nproc, fails, vstores, suspended>>

fi_load(t) ==
  /\ At(t, "fi_load")
  /\ regs' = [regs EXCEPT ![t].xmm = <<faction[FBuf(t)][stack[t].ii3]>>]
  /\ pc' = [pc EXCEPT ![t] = "fi_store"]
  /\ UNCHANGED <<water, rsqrt, setup, extra, inputs, shared, stack, history, suspended>>

fi_store(t) ==
  /\ At(t, "fi_store")
  /\ LET s == stack[t] IN
        /\ faction' = [faction EXCEPT ![FBuf(t)][s.ii3] = regs[t].xmm[1] + HSum(s.fix)]
        /\ writers' = Mark(<<"faction", FBuf(t), s.ii3>>, t)
  /\ regs' = [regs EXCEPT ![t].xmm = <<>>]
  /\ pc' = [pc EXCEPT ![t] = "fshift_load"]
  /\ UNCHANGED <<water, rsqrt, setup, extra, inputs, count, fshift, Vvdw, outeriter, inneriter, stack,
                 claimed, nproc, fails, vstores, suspended>>

fshift_load(t) ==
  /\ At(t, "fshift_load")
  /\ regs' = [regs EXCEPT ![t].xmm = <<fshift[stack[t].is3]>>]
  /\ pc' = [pc EXCEPT ![t] = "fshift_store"]
  /\ UNCHANGED <<water, rsqrt, setup, extra, inputs, shared, stack, history, suspended>>

fshift_store(t) ==
  /\ At(t, "fshift_store")
  /\ LET s == stack[t] IN
        /\ fshift' = [fshift EXCEPT ![s.is3] = regs[t].xmm[1] + HSum(s.fix)]
        /\ writers' = Mark(<<"fshift", 0, s.is3>>, t)
  /\ regs' = [regs EXCEPT ![t].xmm = <<>>]
  /\ pc' = [pc EXCEPT ![t] = "Vvdw_load"]
  /\ UNCHANGED <<water, rsqrt, setup, extra, inputs, count, faction, Vvdw, outeriter, inneriter, stack,
                 claimed, nproc, fails, vstores, suspended>>

Vvdw_load(t) ==
  /\ At(t, "Vvdw_load")
  /\ LET s == stack[t] IN
        regs' = [regs EXCEPT ![t].xmm = <<HSum(s.Vvdwtot) + Vvdw[EnergySlot(s)]>>]
  /\ pc' = [pc EXCEPT ![t] = "Vvdw_store"]
  /\ UNCHANGED <<water, rsqrt, setup, extra, inputs, shared, stack, history, suspended>>

Vvdw_store(t) ==
  /\ At(t, "Vvdw_store")
  /\ LET s == stack[t]
         ggid == EnergySlot(s)
         esi == s.n + 1
     IN /\ Vvdw' = [Vvdw EXCEPT ![ggid] = regs[t].xmm[1]]
        /\ writers' = Mark(<<"Vvdw", 0, ggid>>, t)
        /\ vstores' = [vstores EXCEPT ![t] = @ + 1]
        /\ nproc' = [nproc EXCEPT ![s.n] = @ + 1]
        /\ IF s.nn1 - esi = 0
           THEN /\ stack' = stack
                /\ pc' = [pc EXCEPT ![t] = AfterChunk(nri, esi)]
           ELSE /\ stack' = [stack EXCEPT ![t] = OuterSetup([s EXCEPT !.n = esi], esi)]
                /\ pc' = [pc EXCEPT ![t] = OuterPc(esi)]
  /\ regs' = [regs EXCEPT ![t].xmm = <<>>]
  /\ UNCHANGED <<water, rsqrt, setup, extra, inputs, count, faction, fshift, outeriter, inneriter,
                 claimed, fails, suspended>>

end(t) ==
  /\ At(t, "end")
  /\ outeriter' = stack[t].nouter
  /\ writers' = Mark(<<"outeriter", 0, 0>>, t)
  /\ pc' = [pc EXCEPT ![t] = "end_inneriter"]
  /\ UNCHANGED <<water, rsqrt, setup, extra, inputs, count, faction, fshift, Vvdw, inneriter, stack, regs,
                 claimed, nproc, fails, vstores, suspended>>

end_inneriter(t) ==
  /\ At(t, "end_inneriter")
  /\ inneriter' = stack[t].ninner
  /\ writers' = Mark(<<"inneriter", 0, 0>>, t)
  /\ pc' = [pc EXCEPT ![t] = "done"]
  /\ UNCHANGED <<water, rsqrt, setup, extra, inputs, count, faction, fshift, Vvdw, outeriter, stack, regs,
                 claimed, nproc, fails, vstores, suspended>>

Suspend(t) ==
  /\ suspended = NoThread
  /\ t <= nthreads
  /\ suspended' = t
  /\ UNCHANGED <<water, rsqrt, setup, extra, inputs, shared, locals, history>>

ThreadStep(t) ==
  \/ threadloop(t)
  \/ spinlock(t)
  \/ unroll_load(t)
  \/ unroll_store(t)
  \/ dopair_load1(t)
  \/ dopair_store1(t)
  \/ dopair_load2(t)
  \/ dopair_store2(t)
  \/ dosingle_load(t)
  \/ dosingle_store(t)
  \/ fi_load(t)
  \/ fi_store(t)
  \/ fshift_load(t)
  \/ fshift_store(t)
  \/ Vvdw_load(t)
  \/ Vvdw_store(t)
  \/ end(t)
  \/ end_inneriter(t)

Next ==
  \/ \E t \in AllThreads : threadloop(t)
  \/ \E t \in AllThreads : spinlock(t)
  \/ \E t \in AllThreads : unroll_load(t)
  \/ \E t \in AllThreads : unroll_store(t)
  \/ \E t \in AllThreads : dopair_load1(t)
  \/ \E t \in AllThreads : dopair_store1(t)
  \/ \E t \in AllThreads : dopair_load2(t)
  \/ \E t \in AllThreads : dopair_store2(t)
  \/ \E t \in AllThreads : dosingle_load(t)
  \/ \E t \in AllThreads : dosingle_store(t)
  \/ \E t \in AllThreads : fi_load(t)
  \/ \E t \in AllThreads : fi_store(t)
  \/ \E t \in AllThreads : fshift_load(t)
  \/ \E t \in AllThreads : fshift_store(t)
  \/ \E t \in AllThreads : Vvdw_load(t)
  \/ \E t \in AllThreads : Vvdw_store(t)
  \/ \E t \in AllThreads : end(t)
  \/ \E t \in AllThreads : end_inneriter(t)

NextTally ==
  \/ \E t \in AllThreads : threadloop(t)
  \/ \E t \in AllThreads : spinlock_tally(t)
  \/ \E t \in AllThreads : unroll_load(t)
  \/ \E t \in AllThreads : unroll_store(t)
  \/ \E t \in AllThreads : dopair_load1(t)
  \/ \E t \in AllThreads : dopair_store1(t)
  \/ \E t \in AllThreads : dopair_load2(t)
  \/ \E t \in AllThreads : dopair_store2(t)
  \/ \E t \in AllThreads : dosingle_load(t)
  \/ \E t \in AllThreads : dosingle_store(t)
  \/ \E t \in AllThreads : fi_load(t)
  \/ \E t \in AllThreads : fi_store(t)
  \/ \E t \in AllThreads : fshift_load(t)
  \/ \E t \in AllThreads : fshift_store(t)
  \/ \E t \in AllThreads : Vvdw_load(t)
  \/ \E t \in AllThreads : Vvdw_store(t)
  \/ \E t \in AllThreads : end(t)
  \/ \E t \in AllThreads : end_inneriter(t)

NextSuspend ==
  \/ \E t \in AllThreads : threadloop(t)
  \/ \E t \in AllThreads : spinlock(t)
  \/ \E t \in AllThreads : unroll_load(t)
  \/ \E t \in AllThreads : unroll_store(t)
  \/ \E t \in AllThreads : dopair_load1(t)
  \/ \E t \in AllThreads : dopair_store1(t)
  \/ \E t \in AllThreads : dopair_load2(t)
  \/ \E t \in AllThreads : dopair_store2(t)
  \/ \E t \in AllThreads : dosingle_load(t)
  \/ \E t \in AllThreads : dosingle_store(t)
  \/ \E t \in AllThreads : fi_load(t)
  \/ \E t \in AllThreads : fi_store(t)
  \/ \E t \in AllThreads : fshift_load(t)
  \/ \E t \in AllThreads : fshift_store(t)
  \/ \E t \in AllThreads : Vvdw_load(t)
  \/ \E t \in AllThreads : Vvdw_store(t)
  \/ \E t \in AllThreads : end(t)
  \/ \E t \in AllThreads : end_inneriter(t)
  \/ \E t \in AllThreads : Suspend(t)

Fairness == \A t \in AllThreads : WF_vars(ThreadStep(t))

Spec == Init /\ [][Next]_vars
PrivSpec == InitPriv /\ [][Next]_vars
SchedSpec == InitSched /\ [][Next]_vars
RetrySpec == InitSched /\ [][NextTally]_vars
FairSpec == InitSched /\ [][Next]_vars /\ Fairness
SuspendSpec == InitSched /\ [][NextSuspend]_vars /\ Fairness
TailSpec == InitTail /\ [][Next]_vars
BatchSpec == InitBatch /\ [][Next]_vars

\* ---- nb_kernel232: the nine site-pair blocks of one inner iteration --------
\* charge products of the prologue: qO*qO, qO*qH, qH*qH, each times facel
QQ(name) ==
  CASE name = "OO" -> (wq.O * wq.O) * wq.facel
    [] name = "OH" -> (wq.O * wq.H) * wq.facel
    [] name = "HH" -> (wq.H * wq.H) * wq.facel
\* integer stand-ins: rinv + krsq - crf, rinvsq * (rinv - 2 krsq), and the
\* tabulated Lennard-Jones force of the O-O block
WRF(rsq) == 1 + (rsq % 5)
WFS(rsq) == 1 + (rsq % 3)
WLJ(rsq) == rsq % 2
\* i site, j site and charge product of each block, in program order
UnrollBlocks ==
  << <<"O", "O", "OO">>, <<"O", "H1", "OH">>, <<"O", "H2", "OH">>,
     <<"H1", "O", "OH">>, <<"H1", "H1", "HH">>, <<"H1", "H2", "HH">>,
     <<"H2", "O", "OH">>, <<"H2", "H1", "HH">>, <<"H2", "H2", "HH">> >>
\* the single-tail blocks with the H1-O block multiplied by qqHH
SingleBlocksHH ==
  << <<"O", "O", "OO">>, <<"O", "H1", "OH">>, <<"O", "H2", "OH">>,
     <<"H1", "O", "HH">>, <<"H1", "H1", "HH">>, <<"H1", "H2", "HH">>,
     <<"H2", "O", "OH">>, <<"H2", "H1", "HH">>, <<"H2", "H2", "HH">> >>
SingleBlocks ==
  << <<"O", "O", "OO">>, <<"O", "H1", "OH">>, <<"O", "H2", "OH">>,
     <<"H1", "O", "OH">>, <<"H1", "H1", "HH">>, <<"H1", "H2", "HH">>,
     <<"H2", "O", "OH">>, <<"H2", "H1", "HH">>, <<"H2", "H2", "HH">> >>
Blocks(path) == IF path = "unroll_loop" THEN UnrollBlocks ELSE SingleBlocks
NBlocks == Len(UnrollBlocks)

WDx(si, sj, l) == WIx(si) - wjx[l][sj]
\* energy and partial force of one block in one lane
BlockVc(b, l) == LET dx == WDx(b[1], b[2], l) IN QQ(b[3]) * WRF(dx * dx)
BlockTx(b, l, withLJ) ==
  LET dx == WDx(b[1], b[2], l)
  IN dx * (QQ(b[3]) * WFS(dx * dx) + (IF withLJ THEN WLJ(dx * dx) ELSE 0))

\* one site-pair block: Coulomb energy to vctot, force to the i site's
\* accumulator and, negated, to the j site's; the first three blocks start
\* the j accumulators from a cleared register
w_block ==
  /\ wpc = "block"
  /\ LET b == Blocks(wpath)[wblk]
         ls == Active(wpath)
         tx == [l \in DLanes |-> BlockTx(b, l, wblk = 1)]
     IN /\ vctot' = [l \in DLanes |-> IF l \in ls THEN vctot[l] + BlockVc(b, l) ELSE vctot[l]]
        /\ wfi' = [wfi EXCEPT ![b[1]] =
                     [l \in DLanes |-> IF l \in ls THEN @[l] + tx[l] ELSE @[l]]]
        /\ wfj' = [wfj EXCEPT ![b[2]] =
                     [l \in DLanes |->
                        IF l \in ls
                        THEN (IF wblk <= Len(WSites) THEN 0 ELSE @[l]) - tx[l]
                        ELSE @[l]]]
        /\ wlog' = Append(wlog, b)
  /\ wblk' = wblk + 1
  /\ wpc' = IF wblk = NBlocks THEN "fj" ELSE "block"
  /\ UNCHANGED <<extra, setup, rsqrt, wq, wjx, wpath, wfaction, inputs, shared, locals, history, suspended>>

\* "Did all interactions - now update j forces"
w_fj ==
  /\ wpc = "fj"
  /\ wfaction' = [l \in DLanes |->
                    IF l \in Active(wpath)
                    THEN [st \in SiteSet |-> wfaction[l][st] + wfj[st][l]]
                    ELSE wfaction[l]]
  /\ wpc' = "done"
  /\ UNCHANGED <<extra, setup, rsqrt, wq, wjx, wpath, wblk, vctot, wfi, wfj, wlog,
                 inputs, shared, locals, history, suspended>>

NextWater ==
  \/ w_block
  \/ w_fj

InitWater == InitEmptyList /\ InitPos(0) /\ InitLocal /\ WaterStart /\ RsqrtIdle /\ SetupIdle /\ ExtraIdle
WaterSpec == InitWater /\ [][NextWater]_vars

\* ---- rsqrtps and its Newton-Raphson refinement --------------------------------
\* Relative errors are carried as upper bounds in units of 1e-9, every
\* division rounded up.
CeilDiv(a, b) == (a + b - 1) \div b
\* e*e and e*e*e of a bound e, in the same units
Sq(e) == CeilDiv(CeilDiv(e, 1000) * CeilDiv(e, 1000), 1000)
Cube(e) == CeilDiv(Sq(e) * CeilDiv(e, 1000), 1000000)
\* rsqrtps: relative error at most 1.5 * 2^-12 = 366,211e-9, any value below it
SeedErrs == {0, 100000, 200000, 366211}
\* cvtpd2ps rounds rsq to 24 bits before the lookup: 2^-25 on the result
CvtErr(prec) == IF prec = "double" THEN 30 ELSE 0
\* one rounding of the precision: 2^-24 (single), 2^-53 (double, rounded up
\* to one unit)
Ulp(prec) == IF prec = "single" THEN 60 ELSE 1
\* lu*lu, *rsq, three - ., *lu are rounded; *half is exact
RoundErr(prec) == 4 * Ulp(prec)
\* lu' = half*lu*(three - rsq*lu*lu): with lu = (1 + e)/sqrt(rsq) the new
\* value is (1 - 1.5 e^2 - 0.5 e^3)/sqrt(rsq)
NRErr(e, prec) == CeilDiv(3 * Sq(e), 2) + Cube(e) + RoundErr(prec)
\* iterations written out in the kernel
NRStepsOne(prec) == 1
NRSteps(prec) == IF prec = "single" THEN 1 ELSE 2

rsqrt_seed ==
  /\ rpc = "seed"
  /\ \E e \in SeedErrs :
       /\ rseed' = e
       /\ rerr' = e + CvtErr(rprec)
  /\ rpc' = "iter"
  /\ UNCHANGED <<rprec, rexp, riter, inputs, shared, locals, history, suspended, water, setup, extra>>

rsqrt_iter ==
  /\ rpc = "iter"
  /\ riter < NRSteps(rprec)
  /\ rerr' = NRErr(rerr, rprec)
  /\ riter' = riter + 1
  /\ UNCHANGED <<rprec, rexp, rseed, rpc, inputs, shared, locals, history, suspended, water, setup, extra>>

\* mulps xmm4, xmm0: rinv is used
rsqrt_use ==
  /\ rpc = "iter"
  /\ riter = NRSteps(rprec)
  /\ rpc' = "done"
  /\ UNCHANGED <<rprec, rexp, rseed, rerr, riter, inputs, shared, locals, history, suspended, water, setup, extra>>

NextRsqrt ==
  \/ rsqrt_seed
  \/ rsqrt_iter
  \/ rsqrt_use

InitRsqrt == InitEmptyList /\ InitPos(0) /\ InitLocal /\ WaterIdle /\ RsqrtStart /\ SetupIdle /\ ExtraIdle
RsqrtSpec == InitRsqrt /\ [][NextRsqrt]_vars

\* ---- loading the attributes of the i particle(s) -------------------------------
\* One thread, from the kernel's entry to its return.  nb030 loads type[ii]
\* in .nb030_outer; nb232 and nb312 load charge[ii] and type[ii] of
\* ii = iinr[0] before .threadloop ("assume we have at least one i particle").
\* ntia = 2*ntype*type[ii]
Ntia(a) == 2 * Cardinality(AttrVals) * a
\* qqOO = charge[ii]*charge[ii]*facel, with charge[ii] = a + 1 and facel = 1
QqOO(a) == (a + 1) * (a + 1)
SlotOf(kernel, a) == IF kernel = "nb030" THEN Ntia(a) ELSE QqOO(a)
\* what a load of iinr[k] yields: past the end of the array, any index
IinrAt(k) == IF k \in DOMAIN iinr THEN {iinr[k]} ELSE Atoms

s_prologue ==
  /\ spc = "prologue"
  /\ IF skernel = "nb232"
     THEN \E ii \in IinrAt(0) :
            /\ sslot' = SlotOf(skernel, satt[ii])
            /\ sreads' = sreads \cup {<<"iinr", 0, scount>>}
     ELSE UNCHANGED <<sslot, sreads>>
  /\ spc' = "threadloop"
  /\ UNCHANGED <<skernel, satt, scount, sn, slog,
                 inputs, shared, locals, history, suspended, water, rsqrt, extra>>

s_threadloop ==
  /\ spc = "threadloop"
  /\ LET eax == scount
         ebx == ClampNn1(NextTicket(eax), nri)
     IN /\ scount' = NextTicket(eax)
        /\ sn' = eax
        /\ spc' = IF ebx - eax > 0 THEN "outer" ELSE "end"
  /\ UNCHANGED <<skernel, satt, sslot, sreads, slog,
                 inputs, shared, locals, history, suspended, water, rsqrt, extra>>

s_outer ==
  /\ spc = "outer"
  /\ sslot' = IF skernel = "nb030" THEN SlotOf(skernel, satt[iinr[sn]]) ELSE sslot
  \* jindex is read at n and n + 1
  /\ sreads' = sreads \cup {<<"shift", sn, scount>>, <<"iinr", sn, scount>>,
                            <<"jindex", sn, scount>>}
  /\ spc' = "inner"
  /\ UNCHANGED <<skernel, satt, scount, sn, slog,
                 inputs, shared, locals, history, suspended, water, rsqrt, extra>>

\* the inner loop and .updateouterdata of entry n
s_inner ==
  /\ spc = "inner"
  /\ slog' = slog \cup {<<sn, sslot>>}
  /\ sreads' = sreads \cup {<<"gid", sn, scount>>}
  /\ spc' = AfterChunk(nri, sn + 1)
  /\ UNCHANGED <<skernel, satt, sslot, scount, sn,
                 inputs, shared, locals, history, suspended, water, rsqrt, extra>>

NextSetup ==
  \/ s_prologue
  \/ s_threadloop
  \/ s_outer
  \/ s_inner

InitSetup ==
  /\ InitInputs(FALSE, {BlockSize}, {0}, {2}) /\ InitPos(0)
  /\ InitLocal /\ WaterIdle /\ RsqrtIdle /\ SetupStart /\ ExtraIdle
SetupSpec == InitSetup /\ [][NextSetup]_vars

\* ---- the table lookup of the Lennard-Jones interaction ---------------------
\* One lane of the unrolled loop, from r*tabscale to the scalar force.
\* cvttps2pi truncates r*tabscale; pslld 3 turns n0 into the index of the
\* table point (8 floats per point)
TabIndex(rt) == (rt \div EpsUnit) * 8
\* subps xmm4, xmm6: eps = r*tabscale - n0
TabEps(rt) == rt - (rt \div EpsUnit) * EpsUnit
\* movlps/movhps + shufps 136/221 at byte offsets 0 and 8 (dispersion) or 16
\* and 24 (repulsion): Y, F, G, H
TabSegment(tab, nnn, off) ==
  <<tab[nnn + off], tab[nnn + off + 1], tab[nnn + off + 2], tab[nnn + off + 3]>>
Two == 2
\* xmm6 = G*eps, xmm7 = H*eps2, xmm5 = Fp = F + Geps + Heps2
SplineFp(c, eps) == c[2] + c[3] * eps + c[4] * (eps * eps)
\* a force factor without 'mulps xmm7, two'
SplineFFNoTwo(c, eps) == (c[4] * (eps * eps)) + c[3] * eps + SplineFp(c, eps)
\* xmm7 = two*Heps2 + Geps + Fp
SplineFF(c, eps) == (c[4] * (eps * eps)) * Two + c[3] * eps + SplineFp(c, eps)
\* xmm5 = eps*Fp + Y
SplineVV(c, eps) == SplineFp(c, eps) * eps + c[1]

Others26 == <<inputs, shared, locals, history, suspended, water, rsqrt, setup, nfk, fftw, yaml>>

t_index ==
  /\ tpc = "index"
  /\ tn0' = TabIndex(tin.rt)
  /\ teps' = TabEps(tin.rt)
  /\ tpc' = "dispersion"
  /\ UNCHANGED <<tVFtab, tin, tseg, tfscal, tVvdwtot, tfs, Others26>>

t_dispersion ==
  /\ tpc = "dispersion"
  /\ LET c == TabSegment(tVFtab, tn0, 0)
         pot == SplineVV(c, teps)
         fac == SplineFF(c, teps)
     IN /\ tfscal' = fac * tin.c6
        /\ tVvdwtot' = pot * tin.c6 + tVvdwtot
        /\ tseg' = Append(tseg, [seg |-> "dispersion", VV |-> pot, FF |-> fac])
  /\ tpc' = "repulsion"
  /\ UNCHANGED <<tVFtab, tin, tn0, teps, tfs, Others26>>

t_repulsion ==
  /\ tpc = "repulsion"
  /\ LET c == TabSegment(tVFtab, tn0, 4)
         pot == SplineVV(c, teps)
         fac == SplineFF(c, teps)
     IN /\ tVvdwtot' = pot * tin.c12 + tVvdwtot
        /\ tfs' = 0 - ((fac * tin.c12 + tfscal) * tin.tsc) * tin.rinv
        /\ tseg' = Append(tseg, [seg |-> "repulsion", VV |-> pot, FF |-> fac])
  /\ tpc' = "done"
  /\ UNCHANGED <<tVFtab, tin, tn0, teps, tfscal, Others26>>

NextSpline == t_index \/ t_dispersion \/ t_repulsion
InitSpline ==
  InitEmptyList /\ InitPos(0) /\ InitLocal /\ WaterIdle /\ RsqrtIdle /\ SetupIdle
  /\ SplineStart /\ NfIdle /\ FftwIdle /\ YamlIdle
SplineSpec == InitSpline /\ [][NextSpline]_vars

\* ---- nb_kernel030nf beside nb_kernel030 ---------------------------------------
\* Both kernels are called with the same arguments and run under the same
\* schedule: a step of thread t of the energy-only kernel is followed at once
\* by the step of thread t of the force kernel that starts at the same label;
\* while the force kernel's thread does steps the energy-only kernel does not
\* have (j-force stores, the i-force and shift-force updates) the latter waits.
SyncActive ==
  /\ nfsync[1] \in AllThreads
  /\ nfsync = <<nfsync[1], pc[nfsync[1]], regs[nfsync[1]]>>
ForceTurn(t) == SyncActive /\ nfsync[1] = t
ForceOnly ==
  {"unroll_store", "dopair_store1", "dopair_load2", "dopair_store2", "dosingle_store",
   "fi_load", "fi_store", "fshift_load", "fshift_store"}
NfAt(t, lbl, flbl) == t <= nthreads /\ ~SyncActive /\ nfpc[t] = lbl /\ pc[t] = flbl
NfLead(t) == nfsync' = <<t, pc[t], regs[t]>>
NfOthers == <<inputs, shared, locals, history, suspended, water, rsqrt, setup, spline, fftw, yaml>>

\* an energy-only kernel that never takes the single-pair path
NfCheckSingleNone(k) == "Vvdw_load"
\* .nb030nf_checksingle
NfCheckSingle(k) == IF k % 2 = 1 THEN "dosingle" ELSE "Vvdw_load"
\* .nb030nf_finish_inner
NfFinishInner(k) == IF (k \div 2) % 2 = 1 THEN "dopair" ELSE NfCheckSingle(k)
\* .nb030nf_outer
NfOuterSetup(s, esi) ==
  LET nj == jindex[esi + 1] - jindex[esi] IN
  [s EXCEPT !.is3 = shift[esi], !.ii3 = iinr[esi],
            !.Vvdwtot = Zero4,
            !.innerjjnr = jindex[esi],
            !.ninner = @ + nj,
            !.innerk = IF nj - UNROLL >= 0 THEN nj - UNROLL ELSE nj]
NfOuterPc(esi) ==
  LET nj == jindex[esi + 1] - jindex[esi] IN
  IF nj - UNROLL >= 0 THEN "unroll" ELSE NfFinishInner(nj)

nf_threadloop(t) ==
  /\ NfAt(t, "threadloop", "threadloop")
  /\ nfregs' = [nfregs EXCEPT ![t].eax = nfcount]
  /\ nfpc' = [nfpc EXCEPT ![t] = "spinlock"]
  /\ NfLead(t)
  /\ UNCHANGED <<nfcount, nfVvdw, nfouteriter, nfinneriter, nffaction, nffshift, nfstack,
                 NfOthers>>

nf_spinlock(t) ==
  /\ NfAt(t, "spinlock", "spinlock")
  /\ LET a == nfregs[t].eax
         ebx == NextTicket(a)
     IN IF CmpXchgOk(nfcount, a)
        THEN LET hi == ClampNn1(ebx, nri)
                 s0 == [nfstack[t] EXCEPT !.n = a, !.nn1 = hi]
             IN /\ nfcount' = ebx
                /\ IF hi - a > 0
                   THEN /\ nfstack' = [nfstack EXCEPT ![t] =
                                         NfOuterSetup([s0 EXCEPT !.nouter = @ + (hi - a)], a)]
                        /\ nfpc' = [nfpc EXCEPT ![t] = NfOuterPc(a)]
                   ELSE /\ nfstack' = [nfstack EXCEPT ![t] = s0]
                        /\ nfpc' = [nfpc EXCEPT ![t] = "end"]
                /\ UNCHANGED nfregs
        ELSE /\ nfregs' = [nfregs EXCEPT ![t].eax = CmpXchgFailEax(nfcount, a)]
             /\ UNCHANGED <<nfcount, nfstack, nfpc>>
  /\ NfLead(t)
  /\ UNCHANGED <<nfVvdw, nfouteriter, nfinneriter, nffaction, nffshift, NfOthers>>

nf_unroll(t) ==
  /\ NfAt(t, "unroll", "unroll_load")
  /\ LET s == nfstack[t]
         js == [l \in 1..UNROLL |-> jjnr[s.innerjjnr + l - 1]]
         dx == [l \in 1..UNROLL |-> KDx(s.is3, s.ii3, js[l])]
         vv == [l \in 1..UNROLL |-> VV(dx[l] * dx[l])]
         k == s.innerk - UNROLL
     IN /\ nfstack' = [nfstack EXCEPT ![t] =
                         [s EXCEPT !.innerjjnr = @ + UNROLL,
                                   !.Vvdwtot = AddPS(@, vv),
                                   !.innerk = IF k < 0 THEN k + UNROLL ELSE k]]
        /\ nfpc' = [nfpc EXCEPT ![t] = IF k < 0 THEN NfFinishInner(k + UNROLL) ELSE "unroll"]
  /\ NfLead(t)
  /\ UNCHANGED <<nfcount, nfVvdw, nfouteriter, nfinneriter, nffaction, nffshift, nfregs,
                 NfOthers>>

nf_dopair(t) ==
  /\ NfAt(t, "dopair", "dopair_load1")
  /\ \E g \in Junk :
       LET s == nfstack[t]
           js == <<jjnr[s.innerjjnr], jjnr[s.innerjjnr + 1]>>
           dx == [l \in 1..UNROLL |-> KDx(s.is3, s.ii3, js[((l - 1) % 2) + 1])]
           vv == Masked(PairMask, [l \in 1..UNROLL |->
                                     IF l <= 2 THEN VV(dx[l] * dx[l]) ELSE g])
       IN /\ nfstack' = [nfstack EXCEPT ![t] =
                           [s EXCEPT !.innerjjnr = @ + 2, !.Vvdwtot = AddPS(@, vv)]]
          /\ nfpc' = [nfpc EXCEPT ![t] = NfCheckSingle(s.innerk)]
  /\ NfLead(t)
  /\ UNCHANGED <<nfcount, nfVvdw, nfouteriter, nfinneriter, nffaction, nffshift, nfregs,
                 NfOthers>>

nf_dosingle(t) ==
  /\ NfAt(t, "dosingle", "dosingle_load")
  /\ \E g \in Junk :
       LET s == nfstack[t]
           j == jjnr[s.innerjjnr]
           dx == [l \in 1..UNROLL |->
                    IF l = 1 THEN KDx(s.is3, s.ii3, j) ELSE ShiftVec(s.is3) + pos[s.ii3]]
           vv == Masked(SingleMask, [l \in 1..UNROLL |->
                                       IF l = 1 THEN VV(dx[l] * dx[l]) ELSE g])
       IN nfstack' = [nfstack EXCEPT ![t].Vvdwtot = AddSS(@, vv)]
  /\ nfpc' = [nfpc EXCEPT ![t] = "Vvdw_load"]
  /\ NfLead(t)
  /\ UNCHANGED <<nfcount, nfVvdw, nfouteriter, nfinneriter, nffaction, nffshift, nfregs,
                 NfOthers>>

nf_Vvdw_load(t) ==
  /\ NfAt(t, "Vvdw_load", "Vvdw_load")
  /\ LET s == nfstack[t] IN
        nfregs' = [nfregs EXCEPT ![t].xmm = <<HSum(s.Vvdwtot) + nfVvdw[gid[s.n]]>>]
  /\ nfpc' = [nfpc EXCEPT ![t] = "Vvdw_store"]
  /\ NfLead(t)
  /\ UNCHANGED <<nfcount, nfVvdw, nfouteriter, nfinneriter, nffaction, nffshift, nfstack,
                 NfOthers>>

nf_Vvdw_store(t) ==
  /\ NfAt(t, "Vvdw_store", "Vvdw_store")
  /\ LET s == nfstack[t]
         ggid == gid[s.n]
         esi == s.n + 1
     IN /\ nfVvdw' = [nfVvdw EXCEPT ![ggid] = nfregs[t].xmm[1]]
        /\ IF s.nn1 - esi = 0
           THEN /\ nfstack' = nfstack
                /\ nfpc' = [nfpc EXCEPT ![t] = AfterChunk(nri, esi)]
           ELSE /\ nfstack' = [nfstack EXCEPT ![t] = NfOuterSetup([s EXCEPT !.n = esi], esi)]
                /\ nfpc' = [nfpc EXCEPT ![t] = NfOuterPc(esi)]
  /\ nfregs' = [nfregs EXCEPT ![t].xmm = <<>>]
  /\ NfLead(t)
  /\ UNCHANGED <<nfcount, nfouteriter, nfinneriter, nffaction, nffshift, NfOthers>>

nf_end(t) ==
  /\ NfAt(t, "end", "end")
  /\ nfouteriter' = nfstack[t].nouter
  /\ nfpc' = [nfpc EXCEPT ![t] = "end_inneriter"]
  /\ NfLead(t)
  /\ UNCHANGED <<nfcount, nfVvdw, nfinneriter, nffaction, nffshift, nfstack, nfregs,
                 NfOthers>>

nf_end_inneriter(t) ==
  /\ NfAt(t, "end_inneriter", "end_inneriter")
  /\ nfinneriter' = nfstack[t].ninner
  /\ nfpc' = [nfpc EXCEPT ![t] = "done"]
  /\ NfLead(t)
  /\ UNCHANGED <<nfcount, nfVvdw, nfouteriter, nffaction, nffshift, nfstack, nfregs,
                 NfOthers>>

\* the force kernel's thread is about to do a step the energy-only kernel
\* has no counterpart of
nf_wait(t) ==
  /\ t <= nthreads /\ ~SyncActive /\ pc[t] \in ForceOnly
  /\ NfLead(t)
  /\ UNCHANGED <<nfcount, nfVvdw, nfouteriter, nfinneriter, nffaction, nffshift,
                 nfpc, nfstack, nfregs, NfOthers>>

force_step(t) == ForceTurn(t) /\ ThreadStep(t)

NextNf ==
  \/ \E t \in AllThreads : nf_threadloop(t)
  \/ \E t \in AllThreads : nf_spinlock(t)
  \/ \E t \in AllThreads : nf_unroll(t)
  \/ \E t \in AllThreads : nf_dopair(t)
  \/ \E t \in AllThreads : nf_dosingle(t)
  \/ \E t \in AllThreads : nf_Vvdw_load(t)
  \/ \E t \in AllThreads : nf_Vvdw_store(t)
  \/ \E t \in AllThreads : nf_end(t)
  \/ \E t \in AllThreads : nf_end_inneriter(t)
  \/ \E t \in AllThreads : nf_wait(t)
  \/ \E t \in AllThreads : force_step(t)
InitNf ==
  InitInputs(FALSE, {BlockSize}, {0}, {2}) /\ InitPos(0) /\ InitLocal
  /\ WaterIdle /\ RsqrtIdle /\ SetupIdle /\ SplineIdle /\ NfStart /\ FftwIdle /\ YamlIdle
NfSpec == InitNf /\ [][NextNf]_vars

\* ---- fft_fftw3.cpp: the FFTW wrapper -------------------------------------------
\* A thread at one of these labels is inside a call of the FFTW library other
\* than an execute function.
FNonExec ==
  {"malloc_fft", "malloc_p1", "malloc_p2", "plan", "e_free_p1", "e_free_fft",
   "free_p1", "free_p2", "fatal_free_p1", "fatal_free_p2", "free_fft", "destroy_plan",
   "cleanup"}
\* FFTW_LOCK: where the thread goes on once it has the mutex
LockNext ==
  [init_lock |-> "malloc_fft", dp_lock |-> "destroy_plan", df_lock |-> "free_fft",
   fatal_lock |-> "fatal_free_p1"]
\* calls that return without a choice: where the thread goes on
CallNext ==
  [e_free_p1 |-> "e_free_fft", e_free_fft |-> "enomem_unlock",
   free_p1 |-> "free_p2", free_p2 |-> "ok_unlock",
   fatal_free_p1 |-> "fatal_free_p2", fatal_free_p2 |-> "fatal_unlock2",
   free_fft |-> "df_unlock", destroy_plan |-> "dp_unlock",
   execute |-> "idle", cleanup |-> "idle"]
\* the block an fftw_malloc call is asked for
MallocOf == [malloc_fft |-> "fft", malloc_p1 |-> "p1", malloc_p2 |-> "p2"]
\* the block an fftw_free call is given
FreeOf ==
  [e_free_p1 |-> "p1", e_free_fft |-> "fft", free_p1 |-> "p1", free_p2 |-> "p2",
   fatal_free_p1 |-> "p1", fatal_free_p2 |-> "p2", free_fft |-> "fft"]
\* a thread at one of these labels is about to run FFTW_UNLOCK
UnlockAt ==
  {"enomem_unlock", "ok_unlock", "fatal_unlock", "fatal_unlock2", "dp_unlock", "df_unlock"}
FOthers == <<inputs, shared, locals, history, suspended, water, rsqrt, setup, spline, nfk, yaml>>

\* the caller picks gmx_fft_init_many_1d (with a handle pointer, or with
\* nullptr), gmx_fft_1d, gmx_fft_destroy or gmx_fft_cleanup
f_enter(t) ==
  /\ fpc[t] = "idle"
  /\ \/ /\ fpc' = [fpc EXCEPT ![t] = "init_lock"]
        /\ fobj' = [fobj EXCEPT ![t] = "null"]
        /\ fplan' = [fplan EXCEPT ![t] = {}]
        /\ UNCHANGED <<fidx, fcaller>>
     \/ /\ fpc' = [fpc EXCEPT ![t] = "badptr"]
        /\ UNCHANGED <<fidx, fplan, fobj, fcaller>>
     \/ /\ fobj[t] = "set"
        /\ fpc' = [fpc EXCEPT ![t] = "execute"]
        /\ UNCHANGED <<fidx, fplan, fobj, fcaller>>
     \/ /\ fobj[t] = "set"
        /\ fpc' = [fpc EXCEPT ![t] = "destroy"]
        /\ fidx' = [fidx EXCEPT ![t] = 0]
        /\ fcaller' = [fcaller EXCEPT ![t] = "api"]
        /\ UNCHANGED <<fplan, fobj>>
     \/ /\ fpc' = [fpc EXCEPT ![t] = "cleanup"]
        /\ UNCHANGED <<fidx, fplan, fobj, fcaller>>
  /\ UNCHANGED <<fmutex, fret, falloc, ffreed, FOthers>>

\* FFTW_LOCK
f_lock(t) ==
  /\ fpc[t] \in DOMAIN LockNext
  /\ fmutex = NoThread
  /\ fmutex' = t
  /\ fpc' = [fpc EXCEPT ![t] = LockNext[fpc[t]]]
  /\ UNCHANGED <<fidx, fplan, fobj, fcaller, fret, falloc, ffreed, FOthers>>

\* FFTW_UNLOCK, and what follows it up to the next lock, call or return
f_unlock(t) ==
  /\ fpc[t] \in UnlockAt
  /\ fmutex' = NoThread
  /\ CASE fpc[t] = "enomem_unlock" ->
            /\ fpc' = [fpc EXCEPT ![t] = "ret"]
            /\ fret' = [fret EXCEPT ![t] = "ENOMEM"]
            /\ UNCHANGED <<fidx, fplan, fobj, fcaller>>
       [] fpc[t] = "ok_unlock" ->
            /\ fpc' = [fpc EXCEPT ![t] = "ret"]
            /\ fret' = [fret EXCEPT ![t] = "0"]
            /\ fobj' = [fobj EXCEPT ![t] = "set"]
            /\ UNCHANGED <<fidx, fplan, fcaller>>
       [] fpc[t] = "fatal_unlock" ->
            /\ fpc' = [fpc EXCEPT ![t] = "destroy"]
            /\ fidx' = [fidx EXCEPT ![t] = 0]
            /\ fcaller' = [fcaller EXCEPT ![t] = "init"]
            /\ UNCHANGED <<fplan, fobj, fret>>
       [] fpc[t] = "fatal_unlock2" ->
            /\ fpc' = [fpc EXCEPT ![t] = "ret"]
            /\ fret' = [fret EXCEPT ![t] = "-1"]
            /\ UNCHANGED <<fidx, fplan, fobj, fcaller>>
       [] fpc[t] = "dp_unlock" ->
            /\ fpc' = [fpc EXCEPT ![t] = "destroy"]
            /\ fplan' = [fplan EXCEPT ![t] = @ \ {fidx[t]}]
            /\ fidx' = [fidx EXCEPT ![t] = @ + 1]
            /\ UNCHANGED <<fobj, fcaller, fret>>
       [] fpc[t] = "df_unlock" ->
            \* the caller of gmx_fft_destroy drops its handle; inside
            \* gmx_fft_init_many_1d the handle is the local fft
            /\ fpc' = [fpc EXCEPT ![t] = IF fcaller[t] = "api" THEN "ret" ELSE "fatal_lock"]
            /\ fret' = [fret EXCEPT ![t] = IF fcaller[t] = "api" THEN "void" ELSE @]
            /\ fobj' = [fobj EXCEPT ![t] = "null"]
            \* gmx_fft_destroy returns: its loop index and return address are gone
            /\ fidx' = [fidx EXCEPT ![t] = 0]
            /\ fcaller' = [fcaller EXCEPT ![t] = "api"]
            /\ UNCHANGED fplan
  /\ UNCHANGED <<falloc, ffreed, FOthers>>

f_mallocNoFree(t) ==
  /\ fpc[t] \in {"malloc_fft", "malloc_p1", "malloc_p2"}
  /\ \E ok \in BOOLEAN :
       /\ fpc' = [fpc EXCEPT ![t] =
                 CASE fpc[t] = "malloc_fft" -> IF ok THEN "malloc_p1" ELSE "enomem_unlock"
                   [] fpc[t] = "malloc_p1" -> IF ok THEN "malloc_p2" ELSE "enomem_unlock"
                   [] fpc[t] = "malloc_p2" -> IF ok THEN "plan" ELSE "e_free_p1"]
       /\ falloc' = [falloc EXCEPT ![t] =
                 IF ok THEN @ \cup {MallocOf[fpc[t]]} ELSE @]
  /\ fidx' = [fidx EXCEPT ![t] = 0]
  /\ UNCHANGED <<fmutex, fplan, fobj, fcaller, fret, ffreed, FOthers>>

\* fftw_malloc returns a block or nullptr
f_malloc(t) ==
  /\ fpc[t] \in {"malloc_fft", "malloc_p1", "malloc_p2"}
  /\ \E ok \in BOOLEAN :
       /\ fpc' = [fpc EXCEPT ![t] =
                 CASE fpc[t] = "malloc_fft" -> IF ok THEN "malloc_p1" ELSE "enomem_unlock"
                   [] fpc[t] = "malloc_p1" -> IF ok THEN "malloc_p2" ELSE "e_free_fft"
                   [] fpc[t] = "malloc_p2" -> IF ok THEN "plan" ELSE "e_free_p1"]
       /\ falloc' = [falloc EXCEPT ![t] =
                 IF ok THEN @ \cup {MallocOf[fpc[t]]} ELSE @]
  /\ fidx' = [fidx EXCEPT ![t] = 0]
  /\ UNCHANGED <<fmutex, fplan, fobj, fcaller, fret, ffreed, FOthers>>

\* fftw_plan_many_dft returns a plan or nullptr; the next plan is created
f_plan(t) ==
  /\ fpc[t] = "plan"
  /\ \E ok \in BOOLEAN :
       fplan' = [fplan EXCEPT ![t] = IF ok THEN @ \cup {fidx[t]} ELSE @]
  /\ IF fidx[t] + 1 < MaxPlans
     THEN fidx' = [fidx EXCEPT ![t] = @ + 1] /\ fpc' = fpc
     ELSE fidx' = fidx /\ fpc' = [fpc EXCEPT ![t] = "check"]
  /\ UNCHANGED <<fmutex, fobj, fcaller, fret, falloc, ffreed, FOthers>>

\* the loop that looks for a plan that is nullptr
f_check(t) ==
  /\ fpc[t] = "check"
  /\ fpc' = [fpc EXCEPT ![t] = IF fplan[t] # 0..(MaxPlans - 1) THEN "fatal" ELSE "free_p1"]
  /\ UNCHANGED <<fmutex, fidx, fplan, fobj, fcaller, fret, falloc, ffreed, FOthers>>

f_fatalKeepLock(t) ==
  /\ fpc[t] \in {"fatal", "badptr"}
  /\ \/ fpc' = [u \in AllThreads |-> "exited"] /\ fret' = fret /\ UNCHANGED <<fidx, fcaller>>
     \/ /\ fpc[t] = "fatal"
        /\ fpc' = [fpc EXCEPT ![t] = "destroy"]
        /\ fidx' = [fidx EXCEPT ![t] = 0]
        /\ fcaller' = [fcaller EXCEPT ![t] = "init"]
        /\ fret' = fret
     \/ /\ fpc[t] = "badptr"
        /\ fpc' = [fpc EXCEPT ![t] = "ret"]
        /\ fret' = [fret EXCEPT ![t] = "EINVAL"]
        /\ UNCHANGED <<fidx, fcaller>>
  /\ UNCHANGED <<fmutex, fplan, fobj, falloc, ffreed, FOthers>>

\* gmx_fatal: the program ends, or the call returns and the code after it runs
\* (return EINVAL for a null handle pointer, the cleanup of a failed plan)
f_fatal(t) ==
  /\ fpc[t] \in {"fatal", "badptr"}
  /\ \/ fpc' = [u \in AllThreads |-> "exited"] /\ fret' = fret
     \/ /\ fpc[t] = "fatal"
        /\ fpc' = [fpc EXCEPT ![t] = "fatal_unlock"]
        /\ fret' = fret
     \/ /\ fpc[t] = "badptr"
        /\ fpc' = [fpc EXCEPT ![t] = "ret"]
        /\ fret' = [fret EXCEPT ![t] = "EINVAL"]
  /\ UNCHANGED <<fmutex, fidx, fplan, fobj, fcaller, falloc, ffreed, FOthers>>

\* gmx_fft_destroy: the loop over the plans, then the handle
f_destroy(t) ==
  /\ fpc[t] = "destroy"
  /\ IF fidx[t] = MaxPlans
     THEN fpc' = [fpc EXCEPT ![t] = "df_lock"] /\ fidx' = fidx
     ELSE IF fidx[t] \in fplan[t]
          THEN fpc' = [fpc EXCEPT ![t] = "dp_lock"] /\ fidx' = fidx
          ELSE fpc' = fpc /\ fidx' = [fidx EXCEPT ![t] = @ + 1]
  /\ UNCHANGED <<fmutex, fplan, fobj, fcaller, fret, falloc, ffreed, FOthers>>

\* fftw_free, fftw_destroy_plan, fftw_execute_dft or fftw_cleanup returns
f_return(t) ==
  /\ fpc[t] \in DOMAIN CallNext
  /\ fpc' = [fpc EXCEPT ![t] = CallNext[fpc[t]]]
  /\ ffreed' = IF fpc[t] \in DOMAIN FreeOf
               THEN [ffreed EXCEPT ![t][FreeOf[fpc[t]]] = @ + 1]
               ELSE ffreed
  /\ UNCHANGED <<fmutex, fidx, fplan, fobj, fcaller, fret, falloc, FOthers>>

\* the caller has the return value and goes on; the locals of the call are gone
f_leave(t) ==
  /\ fpc[t] = "ret"
  /\ fpc' = [fpc EXCEPT ![t] = "idle"]
  /\ fret' = [fret EXCEPT ![t] = "none"]
  /\ falloc' = [falloc EXCEPT ![t] = {}]
  /\ ffreed' = [ffreed EXCEPT ![t] = [b \in HeapBlocks |-> 0]]
  /\ fidx' = [fidx EXCEPT ![t] = 0]
  /\ UNCHANGED <<fmutex, fplan, fobj, fcaller, FOthers>>

NextFftw ==
  \/ \E t \in AllThreads : f_enter(t)
  \/ \E t \in AllThreads : f_lock(t)
  \/ \E t \in AllThreads : f_unlock(t)
  \/ \E t \in AllThreads : f_malloc(t)
  \/ \E t \in AllThreads : f_plan(t)
  \/ \E t \in AllThreads : f_check(t)
  \/ \E t \in AllThreads : f_fatal(t)
  \/ \E t \in AllThreads : f_destroy(t)
  \/ \E t \in AllThreads : f_return(t)
  \/ \E t \in AllThreads : f_leave(t)
InitFftw ==
  InitEmptyList /\ InitPos(0) /\ InitLocal /\ WaterIdle /\ RsqrtIdle /\ SetupIdle
  /\ SplineIdle /\ NfIdle /\ FftwStart /\ YamlIdle
FftwSpec == InitFftw /\ [][NextFftw]_vars
\* A thread inside a call keeps running; a thread that waits in FFTW_LOCK gets
\* the mutex if it is free again and again (std::mutex::lock of a scheduled
\* thread). No thread has to start a new call.
FftwRun(t) ==
  \/ f_unlock(t) \/ f_malloc(t) \/ f_plan(t) \/ f_check(t) \/ f_fatal(t)
  \/ f_destroy(t) \/ f_return(t) \/ f_leave(t)
FftwFairness == \A t \in AllThreads : WF_vars(FftwRun(t)) /\ SF_vars(f_lock(t))
FairFftwSpec == InitFftw /\ [][NextFftw]_vars /\ FftwFairness

\* ---- yaml_strategy.cpp: the components stack ------------------------------
\* An operation is the sequence of the steps it takes on the components stack:
\*   push   a component is created by the top component and pushed
\*   pop    the top component is deleted and popped
\*   emit   the top component, or a component that is not on the stack, prints
\*   deref  a pointer argument is dereferenced before it is checked
\*   call   another operation runs
Ins(k) == [k |-> k, op |-> "", code |-> <<>>]
Call(o, c) == [k |-> "call", op |-> o, code |-> c]
RECURSIVE Rep(_, _)
Rep(n, c) == IF n = 0 THEN <<>> ELSE c \o Rep(n - 1, c)
RECURSIVE Flat(_)
Flat(ss) == IF ss = <<>> THEN <<>> ELSE Head(ss) \o Flat(Tail(ss))

pr_title == <<Ins("push")>>
pr_title_i == <<Ins("push")>>
pr_title_n == <<Ins("push")>>
pr_title_nxm == <<Ins("push")>>
pr_title_list == <<Ins("push")>>
close_section == <<Ins("pop")>>
close_list == <<Ins("pop")>>
\* pr_iparam and pr_iparam_reals_of_dim, which printInteractionParameters calls
\* on the strategy, print through the top component
printInteractionParameters == <<Ins("emit")>>
\* the array is made by the top component but not pushed; each functype
\* object is pushed, printed into and closed
pr_functypes(n) ==
  <<Ins("emit")>>
  \o Rep(n, <<Ins("push"), Call("printInteractionParameters", printInteractionParameters),
               Call("close_section", close_section)>>)
  \o <<Ins("emit")>>
pr_interaction_listNoClose(size, bShowParameters) ==
  <<Call("pr_title", pr_title), Ins("emit")>>
  \o IF size = 0
     THEN <<>>
     ELSE <<Ins("emit")>>
          \o Rep(size, <<Ins("emit")>>
                        \o IF bShowParameters
                           THEN <<Call("printInteractionParameters", printInteractionParameters)>>
                           ELSE <<>>)
          \o <<Ins("emit"), Call("close_section", close_section)>>
pr_interaction_list(size, bShowParameters) ==
  <<Call("pr_title", pr_title), Ins("emit")>>
  \o IF size = 0
     THEN <<Call("close_section", close_section)>>
     ELSE <<Ins("emit")>>
          \o Rep(size, <<Ins("emit")>>
                        \o IF bShowParameters
                           THEN <<Call("printInteractionParameters", printInteractionParameters)>>
                           ELSE <<>>)
          \o <<Ins("emit"), Call("close_section", close_section)>>
\* cmap_grid->grid_spacing is read before available(cmap_grid, "cmap") looks
\* at the pointer; grids = -1 stands for cmap_grid == nullptr
pr_cmap(grids) ==
  IF grids < 0
  THEN <<Ins("deref"), Ins("emit")>>
  ELSE <<Call("pr_title_list", pr_title_list)>>
       \o Rep(grids, <<Ins("emit")>>)
       \o <<Call("close_list", close_list)>>
\* the two builders MoltypeBuilder::build runs first: each opens a section,
\* prints its entries and closes the section
AtomsBuilder_build ==
  <<Call("pr_title", pr_title), Ins("emit"), Call("close_section", close_section)>>
ListOfListsBuilder_build ==
  <<Call("pr_title", pr_title), Ins("emit"), Call("close_section", close_section)>>
\* sizes[i] is the size of moltype->ilist[i]
MoltypeBuilder_build(sizes, bShowParameters) ==
  <<Call("pr_title_i", pr_title_i), Ins("emit"),
    Call("AtomsBuilder_build", AtomsBuilder_build),
    Call("ListOfListsBuilder_build", ListOfListsBuilder_build)>>
  \o Flat([i \in 1..F_NRE |->
             <<Call("pr_interaction_list", pr_interaction_list(sizes[i], bShowParameters))>>])
  \o <<Call("close_section", close_section)>>

Openers ==
  {Call("pr_title", pr_title), Call("pr_title_i", pr_title_i), Call("pr_title_n", pr_title_n),
   Call("pr_title_nxm", pr_title_nxm), Call("pr_title_list", pr_title_list)}
Closers == {Call("close_section", close_section), Call("close_list", close_list)}
Compounds ==
  {Call("pr_functypes", pr_functypes(n)) : n \in 0..MaxItems}
  \cup {Call("pr_interaction_list", pr_interaction_list(n, b)) : n \in 0..MaxItems, b \in BOOLEAN}
  \cup {Call("pr_cmap", pr_cmap(g)) : g \in (0 - 1)..MaxItems}
  \cup {Call("MoltypeBuilder_build", MoltypeBuilder_build(sz, b)) :
          sz \in [1..F_NRE -> {0, MaxItems}], b \in BOOLEAN}
CompoundOps == {"pr_functypes", "pr_interaction_list", "pr_cmap", "MoltypeBuilder_build"}

YOthers == <<inputs, shared, locals, history, suspended, water, rsqrt, setup, spline, nfk, fftw>>
Frame(c) == [op |-> c.op, code |-> c.code, entry |-> ystack]
TopFrame == yframes[Len(yframes)]
\* the running operation is at a step of kind k
YAt(k) ==
  /\ ypc = "live" /\ yframes # <<>>
  /\ TopFrame.code # <<>> /\ Head(TopFrame.code).k = k
Advance == [yframes EXCEPT ![Len(yframes)].code = Tail(@)]
\* a number no component on the stack or in a stack remembered by a running
\* operation has
NewComponent ==
  LET used == {ystack[i] : i \in DOMAIN ystack}
              \cup UNION {{yframes[j].entry[i] : i \in DOMAIN yframes[j].entry} :
                           j \in DOMAIN yframes}
  IN CHOOSE c \in 0..(Cardinality(used)) : c \notin used

\* the caller calls an operation of the strategy; top() of an empty stack is
\* undefined, so nothing is called once the root component is gone
y_call ==
  /\ ypc = "live" /\ yframes = <<>> /\ ystack # <<>>
  /\ \E c \in Openers \cup Closers \cup Compounds :
       /\ c \in Openers => Len(ystack) < MaxDepth
       /\ yframes' = <<Frame(c)>>
       /\ yopen' = IF c \in Openers THEN yopen + 1
                   ELSE IF c \in Closers /\ yopen > 0 THEN yopen - 1 ELSE yopen
       /\ ybad' = (ybad \/ (c \in Closers /\ yopen = 0))
  /\ UNCHANGED <<ystack, ypc, yret, YOthers>>

\* componentsStack.push(comp)
y_push ==
  /\ YAt("push")
  /\ ystack' = Append(ystack, NewComponent)
  /\ yframes' = Advance
  /\ UNCHANGED <<ypc, yopen, ybad, yret, YOthers>>

\* delete componentsStack.top(); componentsStack.pop();
y_pop ==
  /\ YAt("pop")
  /\ IF ystack = <<>>
     THEN ypc' = "crashed" /\ UNCHANGED <<ystack, yframes>>
     ELSE /\ ystack' = SubSeq(ystack, 1, Len(ystack) - 1)
          /\ yframes' = Advance
          /\ ypc' = ypc
  /\ UNCHANGED <<yopen, ybad, yret, YOthers>>

\* componentsStack.top()->printKeyValue(...), or printing through a component
\* that is not on the stack
y_emit ==
  /\ YAt("emit")
  /\ IF ystack = <<>>
     THEN ypc' = "crashed" /\ UNCHANGED yframes
     ELSE yframes' = Advance /\ ypc' = ypc
  /\ UNCHANGED <<ystack, yopen, ybad, yret, YOthers>>

\* a read through a pointer that is null: the program crashes, or the read
\* value is not used and the operation goes on
y_deref ==
  /\ YAt("deref")
  /\ \/ ypc' = "crashed" /\ UNCHANGED yframes
     \/ yframes' = Advance /\ ypc' = ypc
  /\ UNCHANGED <<ystack, yopen, ybad, yret, YOthers>>

\* an operation calls another one
y_invoke ==
  /\ YAt("call")
  /\ yframes' = Append(Advance, Frame(Head(TopFrame.code)))
  /\ UNCHANGED <<ystack, ypc, yopen, ybad, yret, YOthers>>

\* the running operation returns
y_return ==
  /\ ypc = "live" /\ yframes # <<>> /\ TopFrame.code = <<>>
  /\ yframes' = SubSeq(yframes, 1, Len(yframes) - 1)
  /\ yret' = [op |-> TopFrame.op, before |-> TopFrame.entry, after |-> ystack]
  /\ UNCHANGED <<ystack, ypc, yopen, ybad, YOthers>>

\* ~YamlStrategy: GMX_RELEASE_ASSERT(componentsStack.empty(), ...)
y_destructor ==
  /\ ypc = "live" /\ yframes = <<>>
  /\ ypc' = IF ystack = <<>> THEN "destroyed" ELSE "assert_failed"
  /\ UNCHANGED <<ystack, yframes, yopen, ybad, yret, YOthers>>

NextYaml ==
  \/ y_call \/ y_push \/ y_pop \/ y_emit \/ y_deref \/ y_invoke \/ y_return
  \/ y_destructor
InitYaml ==
  InitEmptyList /\ InitPos(0) /\ InitLocal /\ WaterIdle /\ RsqrtIdle /\ SetupIdle
  /\ SplineIdle /\ NfIdle /\ FftwIdle /\ YamlStrategy
YamlSpec == InitYaml /\ [][NextYaml]_vars

AllDone == \A t \in Threads : pc[t] = "done"

\* ---- what the history variables say -------------------------------------
Range(c) == c.nn0 .. (c.nn1 - 1)
ClaimsOf(t) == {c \in claimed : c.thr = t}
ClaimsCovering(k) == {c \in claimed : k \in Range(c)}
InEntry(t) == pc[t] \notin {"unused", "threadloop", "spinlock", "end", "end_inneriter", "done"}

\* C1: once all threads have returned, the clamped ranges that were claimed
\* are pairwise disjoint and cover exactly [0, nri): every outer index lies in
\* exactly one claimed range and was processed exactly once.
C1_WorkCounterExhaustion ==
  AllDone =>
    /\ \A c \in claimed : Range(c) \subseteq 0..(nri - 1)
    /\ \A c1, c2 \in claimed : c1 # c2 => Range(c1) \cap Range(c2) = {}
    /\ \A k \in 0..(nri - 1) : Cardinality(ClaimsCovering(k)) = 1 /\ nproc[k] = 1

C1_Witness ==
  /\ AllDone
  /\ nri >= 2
  /\ \E c1, c2 \in claimed : c1.thr # c2.thr /\ Range(c1) # {} /\ Range(c2) # {}

\* C9: a compare-and-swap fails only when another thread has taken the ticket
\* this thread last observed; a thread never has more failed attempts than
\* the other threads have successful claims; the claimed ranges stay pairwise
\* disjoint and every index below the counter is covered by a claim.
C9_BoundedRetries ==
  /\ \A t \in Threads :
        /\ fails[t] <= Cardinality(claimed \ ClaimsOf(t))
        /\ (pc[t] = "spinlock" /\ count # regs[t].eax) =>
              \E c \in claimed : c.thr # t /\ c.nn0 = regs[t].eax
  /\ \A c1, c2 \in claimed : c1 # c2 => Range(c1) \cap Range(c2) = {}
  /\ \A k \in 0..(nri - 1) : k < count => ClaimsCovering(k) # {}

C9_Witness ==
  \E t \in Threads : fails[t] >= 1 /\ pc[t] = "done" /\ ClaimsOf(t) # {}

\* C10: the counter changes only in a compare-and-swap of a thread whose
\* observed value equals the counter, and then it grows by exactly Chunk.
C10_CounterOnlyByCas ==
  [][count' # count =>
       /\ count' = count + Chunk
       /\ \E t \in Threads : /\ pc[t] = "spinlock"
                              /\ regs[t].eax = count
                              /\ pc'[t] # "spinlock"
                              /\ \A u \in Threads \ {t} : pc'[u] = pc[u]]_vars

C10_Witness == count >= 2 /\ Cardinality({c.thr : c \in claimed}) >= 2

\* ---- reference values, computed pair by pair from the list --------------
RECURSIVE SumFn(_, _, _)
SumFn(f, lo, hi) == IF lo > hi THEN 0 ELSE f[lo] + SumFn(f, lo + 1, hi)

JRange(k) == jindex[k] .. (jindex[k + 1] - 1)
Touched(k) == {iinr[k]} \cup {jjnr[q] : q \in JRange(k)}
EntryF(k) ==
  SumFn([q \in JRange(k) |-> PairF(shift[k], iinr[k], jjnr[q])], jindex[k], jindex[k + 1] - 1)
EntryV(k) ==
  SumFn([q \in JRange(k) |-> PairV(shift[k], iinr[k], jjnr[q])], jindex[k], jindex[k + 1] - 1)
EntryOnJ(k, p) ==
  SumFn([q \in JRange(k) |-> IF jjnr[q] = p THEN PairF(shift[k], iinr[k], jjnr[q]) ELSE 0],
        jindex[k], jindex[k + 1] - 1)
RefForce(p) ==
  InitForce(p) +
  SumFn([k \in 0..(nri - 1) |-> (IF iinr[k] = p THEN EntryF(k) ELSE 0) - EntryOnJ(k, p)],
        0, nri - 1)
RefFshift(s) ==
  InitFshift(s) + SumFn([k \in 0..(nri - 1) |-> IF shift[k] = s THEN EntryF(k) ELSE 0], 0, nri - 1)
RefVvdw(g) ==
  InitVvdw(g) + SumFn([k \in 0..(nri - 1) |-> IF gid[k] = g THEN EntryV(k) ELSE 0], 0, nri - 1)
TotalForce(p) == SumFn([b \in AllThreads |-> faction[b][p]], 1, MaxThreads)
NoSharedParticle ==
  \A k1, k2 \in 0..(nri - 1) : k1 # k2 => Touched(k1) \cap Touched(k2) = {}
WritersOf(kind) == UNION {writers[loc] : loc \in {l \in DOMAIN writers : l[1] = kind}}

\* C2: when no particle is touched by two different outer entries, no force
\* slot is ever written by two threads and, once all threads have returned,
\* every force slot holds its initial value plus every pair contribution of
\* the list, whatever the interleaving and the number of threads.
C2_DisjointParticlesNoRace ==
  NoSharedParticle =>
    /\ \A loc \in DOMAIN writers : loc[1] = "faction" => Cardinality(writers[loc]) <= 1
    /\ AllDone => \A p \in Atoms : TotalForce(p) = RefForce(p)

C2_Witness ==
  /\ AllDone
  /\ NoSharedParticle
  /\ nri >= 2
  /\ Cardinality(WritersOf("faction")) >= 2
  /\ \E p \in Atoms : RefForce(p) # InitForce(p)

\* C3: once all threads have returned, every energy slot holds its initial
\* value plus the energies of all outer entries of that group.
C3_EnergyExact == AllDone => \A g \in Groups : Vvdw[g] = RefVvdw(g)

\* C4: once all threads have returned, every shift-force slot holds its
\* initial value plus the i-forces of all outer entries with that shift.
C4_ShiftForceExact == AllDone => \A s \in ShiftIdx : fshift[s] = RefFshift(s)

Completed(t) == stack[t].nouter - (IF InEntry(t) THEN stack[t].nn1 - stack[t].n ELSE 0)

C6_OnlyCounterShared == \A loc \in DOMAIN writers : Cardinality(writers[loc]) <= 1

\* an unfinished thread has an instruction it can execute
NoStuck == \A t \in Threads : pc[t] # "done" => ENABLED ThreadStep(t)

\* C7: under weak fairness of every thread, each thread starts at the claim
\* loop, every unfinished thread always has a step it can take, and
\* eventually all threads have returned for good.
C7_RunsToCompletion ==
  /\ \A t \in Threads : pc[t] = "threadloop"
  /\ []NoStuck
  /\ <>[]AllDone

C7_Witness ==
  /\ AllDone
  /\ nthreads >= 2
  /\ nri >= 2
  /\ \A t \in Threads : ClaimsOf(t) # {}

\* every thread other than the suspended one has returned
OthersDone == \A t \in Threads : t = suspended \/ pc[t] = "done"
\* outer index k lies in the part of a chunk the suspended thread still holds
HeldBySuspended(k) ==
  /\ suspended # NoThread
  /\ InEntry(suspended)
  /\ stack[suspended].n <= k
  /\ k < stack[suspended].nn1

\* C8 as stated: when every thread other than a suspended one has returned,
\* every outer entry has been processed or is held by the suspended thread.
C8_SuspensionLeavesNoEntry ==
  OthersDone => \A k \in 0..(nri - 1) : nproc[k] = 1 \/ HeldBySuspended(k)

\* C8 as amended: with one thread suspended for good at any point, every
\* other thread still returns, and if the invocation has at least two
\* threads every outer entry has then been processed exactly once or is
\* held by the suspended thread.
C8_NoThreadWaitsForAnother ==
  /\ <>[]OthersDone
  /\ []((nthreads >= 2 /\ OthersDone) =>
          \A k \in 0..(nri - 1) : (nproc[k] = 1 /\ ~HeldBySuspended(k))
                                   \/ (nproc[k] = 0 /\ HeldBySuspended(k)))

C8_Witness ==
  /\ nthreads >= 2
  /\ suspended # NoThread
  /\ InEntry(suspended)
  /\ OthersDone
  /\ \E k \in 0..(nri - 1) : k > stack[suspended].n /\ nproc[k] = 1
\* ---- Newton's third law ---------------------------------------------------
\* sum of the force array of the first buffer
ForceSum == SumFn(faction[1], 0, natoms - 1)
ForceSum0 == SumFn([q \in Atoms |-> InitForce(q)], 0, natoms - 1)
\* partial forces already added to the i accumulator whose subtraction from
\* the j slot is still to be stored
PendingJ(t) ==
  CASE pc[t] = "unroll_store" -> HSum(regs[t].tx)
    [] pc[t] = "dopair_store1" -> regs[t].tx[1] + regs[t].tx[2]
    [] pc[t] = "dopair_load2" -> regs[t].tx[2]
    [] pc[t] \in {"dopair_store2", "dosingle_store"} -> Lane0(regs[t].tx)
    [] OTHER -> 0
\* the i accumulator not yet added to the force array
PendingI(t) ==
  IF pc[t] \in {"unroll_load", "unroll_store", "dopair_load1", "dopair_store1",
                "dopair_load2", "dopair_store2", "dosingle_load", "dosingle_store",
                "fi_load", "fi_store"}
  THEN HSum(stack[t].fix) ELSE 0

\* C11: on every path (batch, pair tail, single tail) the vector subtracted
\* from a j slot is the vector that was added to the i accumulator for that
\* pair, lane by lane; in a single-thread run the sum of the force array over
\* all particles, with the contributions still held in registers and in the
\* i accumulator counted in, never changes, so the total change at return is 0.
C11_NewtonThirdLaw ==
  /\ \A t \in Threads :
        pc[t] = "unroll_store" => UnrollSub(regs[t].tx) = regs[t].tx
  /\ nthreads = 1 => ForceSum + PendingI(1) - PendingJ(1) = ForceSum0
C11_Witness ==
  /\ nthreads = 1 /\ AllDone /\ nri >= 2
  /\ \E q \in Atoms : faction[1][q] # InitForce(q)
  /\ ForceSum = ForceSum0

\* ---- outer entries without partners ----------------------------------------
\* thread t is inside an outer entry whose j range is empty
ZeroEntry(t) == InEntry(t) /\ jindex[stack[t].n + 1] = jindex[stack[t].n]
\* thread t executes its next instruction
Steps(t) == pc'[t] # pc[t]

\* C12: an outer entry with zero j-partners runs neither the batch nor a tail
\* path; no step of the thread inside it changes the value of any slot of the
\* force, shift-force or energy array (it adds exactly zero), so the
\* contributions of all other outer entries stay as they were.
C12_ZeroEntryNoEffect ==
  [][\A t \in Threads :
       (ZeroEntry(t) /\ Steps(t)) =>
         /\ pc[t] \in {"fi_load", "fi_store", "fshift_load", "fshift_store",
                       "Vvdw_load", "Vvdw_store"}
         /\ faction' = faction /\ fshift' = fshift /\ Vvdw' = Vvdw]_vars

\* ---- remainder of the unrolled inner loop -----------------------------------
\* C13: for every remainder 1..UNROLL-1 of the inner-loop length, with or
\* without a batch before it, the i-force and energy accumulators at the end of
\* the inner loop hold the sum of separate single-pair evaluations, and the
\* force array at return is the pair-by-pair reference; whatever the lanes
\* without partner hold reaches neither accumulator nor any j slot.
C13_TailEqualsSinglePairs ==
  /\ \A t \in Threads :
       pc[t] = "fi_load" =>
         /\ HSum(stack[t].fix) = EntryF(stack[t].n)
         /\ HSum(stack[t].Vvdwtot) = EntryV(stack[t].n)
  /\ AllDone => \A q \in Atoms : faction[1][q] = RefForce(q)
C13_Witness ==
  /\ AllDone /\ nri = 1
  /\ (jindex[1] - jindex[0]) % UNROLL = UNROLL - 1
  /\ jindex[1] - jindex[0] > UNROLL
  /\ \A q \in 1..jindex[1] : faction[1][q] # InitForce(q)
  /\ Vvdw[0] = InitVvdw(0) + EntryV(0)

\* ---- iteration counters -----------------------------------------------------
\* outer entries of the chunks thread t has taken, and their inner-loop lengths
EntriesOf(t) == UNION {Range(c) : c \in ClaimsOf(t)}
InnerOf(t) ==
  SumFn([k \in 0..(nri - 1) |->
           IF k \in EntriesOf(t) THEN jindex[k + 1] - jindex[k] ELSE 0], 0, nri - 1)

\* C14: a thread stores to *outeriter and *inneriter in no step but its two
\* last ones, which it takes once (it never leaves Done and never comes back
\* to .nb030_end); the outer count it stores is the number of outer entries it
\* has processed, the inner count is the sum of jindex[n+1]-jindex[n] over
\* exactly those entries.
C14_IterationCounters ==
  [][\A t \in Threads :
       /\ (Steps(t) /\ pc[t] = "end") =>
            /\ outeriter' = vstores[t]
            /\ outeriter' = Cardinality(EntriesOf(t))
            /\ inneriter' = inneriter
            /\ pc'[t] = "end_inneriter"
       /\ (Steps(t) /\ pc[t] = "end_inneriter") =>
            /\ inneriter' = InnerOf(t)
            /\ outeriter' = outeriter
            /\ pc'[t] = "done"
       /\ (Steps(t) /\ pc[t] \notin {"end", "end_inneriter"}) =>
            /\ outeriter' = outeriter /\ inneriter' = inneriter
            /\ pc'[t] # "end_inneriter"
       /\ pc[t] = "done" => pc'[t] = "done"]_vars
C14_Witness ==
  /\ AllDone /\ nthreads >= 2
  /\ \E t \in Threads : vstores[t] = 0
  /\ \E t \in Threads :
       /\ vstores[t] >= 1 /\ outeriter = vstores[t]
       /\ inneriter = InnerOf(t) /\ inneriter > 0

\* ---- what the kernel writes -------------------------------------------------
\* arrays the kernel stores to other than through the locked compare-and-swap
OutputKinds == {"faction", "fshift", "Vvdw", "outeriter", "inneriter"}

\* C15: no step changes the pair list (nri, iinr, jindex, jjnr, shift, gid),
\* the thread count or the coordinates, and every store goes to the force
\* array, the shift-force array, the energy array or one of the two iteration
\* counters; the only other location written is the work counter.
C15_WritesOnlyOutputs ==
  [][/\ lists' = lists
     /\ pos' = pos
     /\ \A loc \in DOMAIN writers' : loc[1] \in OutputKinds]_vars
C15_Witness ==
  /\ AllDone /\ count > 0
  /\ {loc[1] : loc \in DOMAIN writers} = OutputKinds
  /\ \E t \in Threads : vstores[t] >= 2
  /\ pos = [q \in Atoms |-> Pos(q)]

\* ---- water-water site pairs --------------------------------------------------
SiteQ(st) == IF st = "O" THEN wq.O ELSE wq.H
\* pair-by-pair reference: Coulomb energy of two sites, force on the i site
SiteVc(a, b, l) ==
  LET dx == WIx(a) - wjx[l][b] IN ((SiteQ(a) * SiteQ(b)) * wq.facel) * WRF(dx * dx)
SiteTx(a, b, l) ==
  LET dx == WIx(a) - wjx[l][b]
  IN dx * (((SiteQ(a) * SiteQ(b)) * wq.facel) * WFS(dx * dx)
           + (IF a = "O" /\ b = "O" THEN WLJ(dx * dx) ELSE 0))
Sum3(f) == f[1] + f[2] + f[3]
RefVc(l) == Sum3([i \in 1..3 |-> Sum3([j \in 1..3 |-> SiteVc(WSites[i], WSites[j], l)])])
RefFi(a, l) == Sum3([j \in 1..3 |-> SiteTx(a, WSites[j], l)])
RefFj(b, l) == Sum3([i \in 1..3 |-> SiteTx(WSites[i], b, l)])

\* C16: when the inner iteration of the water-water kernel is finished, on the
\* batch path (both lanes) and on the single-tail path (low lane), each of the
\* nine site pairs has been done exactly once, each with the charge product of
\* its two sites (qO*qO, qO*qH, qH*qH, times facel); the Coulomb energy added
\* to vctot, the force added to each i-site accumulator and the force
\* subtracted from each j site equal the sums over the nine pairs, and the lane
\* without j water is left as it was.
C16_NineSitePairsOnce ==
  wpc = "done" =>
    /\ Len(wlog) = Cardinality(SiteSet \X SiteSet)
    /\ {<<wlog[i][1], wlog[i][2]>> : i \in 1..Len(wlog)} = SiteSet \X SiteSet
    /\ \A i \in 1..Len(wlog) :
         QQ(wlog[i][3]) = (SiteQ(wlog[i][1]) * SiteQ(wlog[i][2])) * wq.facel
    /\ \A l \in DLanes :
         IF l \in Active(wpath)
         THEN /\ vctot[l] = StaleVc(l) + RefVc(l)
              /\ \A st \in SiteSet :
                   /\ wfi[st][l] = StaleFi(st, l) + RefFi(st, l)
                   /\ wfaction[l][st] = InitFj(l, st) - RefFj(st, l)
         ELSE /\ vctot[l] = StaleVc(l)
              /\ \A st \in SiteSet :
                   /\ wfi[st][l] = StaleFi(st, l)
                   /\ wfaction[l][st] = InitFj(l, st)
C16_Witness ==
  /\ wpc = "done" /\ wpath = "dosingle"
  /\ Len(wlog) = NBlocks
  /\ wq.O * wq.H # wq.H * wq.H
  /\ vctot[1] # StaleVc(1)

\* ---- sum of the group energies ---------------------------------------------
\* energy added to all group slots together by the run
GroupSum == SumFn([g \in Groups |-> Vvdw[g] - InitVvdw(g)], 0, Cardinality(Groups) - 1)
\* energy of the whole list: what slot 0 receives when every entry has group 0
TotalV == SumFn([k \in 0..(nri - 1) |-> EntryV(k)], 0, nri - 1)

\* C17: once all threads have returned, the energies added to the group slots
\* sum, over all slots, to the energy of the whole pair list, whatever the
\* group-id assignment; with every group id 0 that total is in slot 0 alone.
C17_GroupSumIsTotal == AllDone => GroupSum = TotalV

\* ---- translation of all coordinates -----------------------------------------
\* the vector added to every position of this run
Translation == pos[0] - Pos(0)

\* C18: with the same vector added to every position and the shift vectors
\* unchanged, every displacement the kernel forms (shifted i position minus j
\* position) equals the displacement of the untranslated coordinates, and the
\* energies in the output array at return are those of the untranslated run.
C18_TranslationInvariant ==
  /\ \A p \in Atoms : pos[p] = Pos(p) + Translation
  /\ \A n \in 0..(nri - 1) : \A q \in JRange(n) :
       KDx(shift[n], iinr[n], jjnr[q]) = Dx(shift[n], iinr[n], jjnr[q])
  /\ AllDone => \A g \in Groups : Vvdw[g] = RefVvdw(g)
C18_Witness ==
  /\ AllDone
  /\ Translation # 0
  /\ jindex[1] > UNROLL
  /\ \E g \in Groups : Vvdw[g] # InitVvdw(g)

\* C19: the value used as 1/sqrt(rsq) is the rsqrtps seed refined by exactly
\* one Newton-Raphson iteration in the single-precision kernel and exactly
\* two in the double-precision kernel, and its relative error is then below
\* 1e-6 (single) or 1e-7 (double), for every rsq from 1e-6 to 1e4 and every
\* seed error the instruction allows.
C19_RsqrtAccuracy ==
  rpc = "done" =>
    /\ riter = (IF rprec = "single" THEN 1 ELSE 2)
    /\ rerr < (IF rprec = "single" THEN 1000 ELSE 100)
C19_Witness ==
  /\ rpc = "done"
  /\ rprec = "double"
  /\ riter = 2
  /\ rseed = 366211
  /\ rexp = 4
  /\ rerr > 0

\* ---- the states of a worker thread -------------------------------------------
\* ClaimChunk: .nb030_threadloop / .nb030_spinlock; Done: .nb030_end and after;
\* ProcessOuterEntry: everything from .nb030_outerstart to .nb030_outerend
Phase(t) ==
  CASE pc[t] = "unused" -> "Unused"
    [] pc[t] \in {"threadloop", "spinlock"} -> "ClaimChunk"
    [] pc[t] \in {"end", "end_inneriter", "done"} -> "Done"
    [] OTHER -> "ProcessOuterEntry"
\* the range nn0..nn1-1 on the thread's stack is empty
EmptyClaim(t) == stack[t].nn1 - stack[t].n <= 0
\* the entry being finished is the last of the claimed range
RangeFinished(t) == stack[t].nn1 - (stack[t].n + 1) = 0
\* the transitions out of ClaimChunk and inside ProcessOuterEntry
ClaimSteps(t) ==
  /\ (Phase(t) = "ClaimChunk" /\ Phase(t)' = "Done") => EmptyClaim(t)'
  /\ (Phase(t) = "ClaimChunk" /\ Phase(t)' = "ProcessOuterEntry") => ~EmptyClaim(t)'
  /\ (Phase(t) = "ProcessOuterEntry" /\ Phase(t)' = "ProcessOuterEntry"
        /\ stack[t].n' # stack[t].n) =>
       (~RangeFinished(t) /\ stack[t].n' = stack[t].n + 1)
  /\ Phase(t) = "Done" => Phase(t)' = "Done"
  /\ Phase(t) = "Unused" => Phase(t)' = "Unused"

\* C20 as stated: a thread leaves ProcessOuterEntry only for ClaimChunk, when
\* its claimed range is finished, and enters Done only from ClaimChunk, after
\* an empty claim.
C20_OnlyListedTransitions ==
  [][\A t \in Threads :
       /\ ClaimSteps(t)
       /\ (Phase(t) = "ProcessOuterEntry" /\ Phase(t)' = "ClaimChunk") => RangeFinished(t)
       /\ (Phase(t) # "Done" /\ Phase(t)' = "Done") => Phase(t) = "ClaimChunk"]_vars

\* C20: a thread takes only these transitions: ClaimChunk to Done on an empty
\* claim, ClaimChunk to ProcessOuterEntry on a non-empty claim,
\* ProcessOuterEntry to the next entry while entries remain in the claimed
\* range, ProcessOuterEntry to ClaimChunk when the claimed range is finished
\* and ends before nri, and ProcessOuterEntry to Done when the claimed range
\* is finished and ends at nri; Done is never left.
C20_TransitionsWithDirectExit ==
  [][\A t \in Threads :
       /\ ClaimSteps(t)
       /\ (Phase(t) = "ProcessOuterEntry" /\ Phase(t)' = "ClaimChunk") =>
            (RangeFinished(t) /\ stack[t].nn1 # nri)
       /\ (Phase(t) = "ProcessOuterEntry" /\ Phase(t)' = "Done") =>
            (RangeFinished(t) /\ stack[t].nn1 = nri)]_vars
C20_Witness ==
  \E t, u \in Threads :
    /\ t # u
    /\ pc[t] = "end" /\ ~EmptyClaim(t) /\ nproc[stack[t].n] >= 1
    /\ pc[u] = "end" /\ EmptyClaim(u) /\ vstores[u] >= 1

\* ---- the clamp of a claimed range ----------------------------------------------
\* C21: a successful claim that moved the counter from v to v + Chunk gives
\* the range [v, min(v + Chunk, nri)); a thread inside an outer entry is at an
\* index of a range it claimed, below nri, whatever the counter has reached;
\* a claim with v >= nri is empty and no entry is processed for it.
C21_ClampedRange ==
  /\ \A c \in claimed :
       /\ c.nn1 = (IF c.nn0 + Chunk <= nri THEN c.nn0 + Chunk ELSE nri)
       /\ c.nn0 >= nri => Range(c) = {}
  /\ \A t \in Threads :
       /\ InEntry(t) => /\ 0 <= stack[t].n /\ stack[t].n < nri
                        /\ \E c \in ClaimsOf(t) : stack[t].n \in Range(c)
       /\ vstores[t] <= Cardinality({c \in ClaimsOf(t) : c.nn0 < nri})
  /\ AllDone => \A k \in 0..(nri - 1) : nproc[k] = 1
C21_Witness ==
  /\ AllDone
  /\ nri >= 1
  /\ count > nri
  /\ \E c \in claimed : c.nn0 >= nri
  /\ \E c \in claimed : c.nn0 = nri - 1 /\ c.nn1 = nri

\* ---- batches and tails of the inner loop ---------------------------------------
\* C22: inside an outer entry with nj list positions the single-precision
\* inner loop reads four positions per batch, only while at least four
\* unread positions remain and always at a multiple of four from the start;
\* the pair path runs iff nj mod 4 is 2 or 3 and reads the next two, the
\* single path runs iff nj mod 4 is 1 or 3 and reads the last one; every
\* load reads at the pointer and moves it by the number read, so that when
\* the i force is flushed every position of [jindex[n], jindex[n+1]) has been
\* read once, in order, and none outside.  The double-precision loop does
\* nj div 2 batches of two and the single path iff nj is odd.
C22_InnerLoopCoverage ==
  [][\A t \in Threads :
       LET s == stack[t]
           j0 == jindex[s.n]
           j1 == jindex[s.n + 1]
           nj == j1 - j0
           rem == j1 - s.innerjjnr
           rem1 == jindex[stack'[t].n + 1] - stack'[t].innerjjnr
           nj1 == jindex[stack'[t].n + 1] - jindex[stack'[t].n]
       IN /\ (pc[t] = "unroll_load" /\ pc'[t] = "unroll_store") =>
               /\ rem >= UNROLL
               /\ (s.innerjjnr - j0) % UNROLL = 0
               /\ regs'[t].jnr = [l \in 1..UNROLL |-> jjnr[s.innerjjnr + l - 1]]
               /\ stack'[t].innerjjnr = s.innerjjnr + UNROLL
          /\ (pc[t] = "dopair_load1" /\ pc'[t] = "dopair_store1") =>
               /\ nj % UNROLL \in {2, 3}
               /\ s.innerjjnr = j0 + UNROLL * (nj \div UNROLL)
               /\ regs'[t].jnr = <<jjnr[s.innerjjnr], jjnr[s.innerjjnr + 1]>>
               /\ stack'[t].innerjjnr = s.innerjjnr + 2
          /\ (pc[t] = "dosingle_load" /\ pc'[t] = "dosingle_store") =>
               /\ nj % UNROLL \in {1, 3}
               /\ rem = 1
               /\ regs'[t].jnr = <<jjnr[j1 - 1]>>
          /\ (pc[t] # "dosingle_load" /\ pc'[t] = "dosingle_load") =>
               /\ rem1 = 1
               /\ (pc[t] = "dopair_store2") = (nj1 % UNROLL = 3)
          /\ (pc[t] # "dopair_load1" /\ pc'[t] = "dopair_load1") =>
               rem1 = nj1 % UNROLL
          /\ (pc[t] # "fi_load" /\ pc'[t] = "fi_load") =>
               /\ rem1 = (IF pc[t] = "dosingle_store" THEN 1 ELSE 0)
               /\ (pc[t] = "dopair_store2") = (nj1 % UNROLL = 2)
               /\ (pc[t] = "dosingle_store") = (nj1 % UNROLL \in {1, 3})
          /\ \A n \in 0..(nri - 1) :
               LET m == jindex[n + 1] - jindex[n]
               IN DPaths(jindex[n], m - DWidth) =
                    [i \in 1..((m \div DWidth) + (m % DWidth)) |->
                       IF i <= m \div DWidth
                       THEN <<"unroll_loop", jindex[n] + DWidth * (i - 1), DWidth>>
                       ELSE <<"dosingle", jindex[n + 1] - 1, 1>>]]_vars
C22_Witness ==
  \E t \in Threads :
    /\ pc[t] = "dosingle_store"
    /\ jindex[stack[t].n + 1] - jindex[stack[t].n] = 2 * UNROLL - 1
    /\ regs[t].jnr = <<jjnr[jindex[stack[t].n + 1] - 1]>>
    /\ stack[t].innerjjnr = jindex[stack[t].n] + UNROLL + 2

\* ---- the i force of an outer entry ---------------------------------------------
\* C23: the i-force accumulator is zero when a thread enters an outer entry;
\* while the thread is in the inner loop it writes neither the force slot of
\* the i particle nor the shift-force array; after the inner loop it stores
\* the i slot once, as the value it loaded plus the sum over exactly this
\* entry's pairs, and the slot fshift[shift[n]] once, likewise, and it does
\* not return to the inner loop or to the flush before the next entry.
C23_ForceFlushedOncePerEntry ==
  [][\A t \in Threads :
       LET s == stack[t]
           b == FBuf(t)
           Inner == {"unroll_load", "unroll_store", "dopair_load1", "dopair_store1",
                     "dopair_load2", "dopair_store2", "dosingle_load", "dosingle_store"}
           Flush == {"fi_load", "fi_store", "fshift_load", "fshift_store",
                     "Vvdw_load", "Vvdw_store"}
       IN Steps(t) =>
            /\ (pc[t] \in {"spinlock", "Vvdw_store"} /\ pc'[t] \in Inner \cup Flush) =>
                 /\ stack'[t].fix = Zero4
                 /\ stack'[t].ii3 = iinr[stack'[t].n]
                 /\ stack'[t].is3 = shift[stack'[t].n]
            /\ pc[t] \in Inner =>
                 /\ faction'[b][iinr[s.n]] = faction[b][iinr[s.n]]
                 /\ fshift' = fshift
                 /\ pc'[t] \in Inner \cup {"fi_load"}
            /\ pc[t] = "fi_load" =>
                 /\ HSum(s.fix) = EntryF(s.n)
                 /\ regs'[t].xmm = <<faction[b][iinr[s.n]]>>
                 /\ pc'[t] = "fi_store"
            /\ pc[t] = "fi_store" =>
                 /\ faction' = [faction EXCEPT ![b][iinr[s.n]] = regs[t].xmm[1] + EntryF(s.n)]
                 /\ pc'[t] = "fshift_load"
            /\ pc[t] = "fshift_load" =>
                 /\ regs'[t].xmm = <<fshift[shift[s.n]]>>
                 /\ pc'[t] = "fshift_store"
            /\ pc[t] = "fshift_store" =>
                 /\ fshift' = [fshift EXCEPT ![shift[s.n]] = regs[t].xmm[1] + EntryF(s.n)]
                 /\ pc'[t] = "Vvdw_load"
            /\ pc[t] \in Flush \ {"fi_store"} => faction' = faction
            /\ pc[t] \in Flush \ {"fshift_store"} => fshift' = fshift
            /\ (pc[t] \in {"Vvdw_load", "Vvdw_store"} /\ pc'[t] \in Inner \cup Flush) =>
                 (pc[t] = "Vvdw_load" /\ pc'[t] = "Vvdw_store")
                 \/ (pc[t] = "Vvdw_store" /\ stack'[t].n = s.n + 1)]_vars
C23_Witness ==
  \E t \in Threads :
    /\ vstores[t] >= 1
    /\ pc[t] = "Vvdw_load"
    /\ EntryF(stack[t].n) # 0
    /\ HSum(stack[t].fix) = EntryF(stack[t].n)
    /\ \E k \in 0..(nri - 1) : k # stack[t].n /\ nproc[k] = 1 /\ EntryF(k) # 0

\* ---- parameters of the i particle ------------------------------------------------
\* C24: the parameters applied to the pairs of every processed outer entry n
\* (ntia, the charge products) are those of that entry's own i particle
\* iinr[n].
C24_ParametersOfOwnParticle ==
  \A e \in slog : e[2] = SlotOf(skernel, satt[iinr[e[1]]])

\* C27: every read of iinr[], shift[], gid[] and jindex[] uses an outer
\* index n with 0 <= n < nri that the thread had claimed when it read (the
\* counter had passed n); with nri = 0 nothing is read.
C27_ReadsOnlyClaimedEntries ==
  /\ \A r \in sreads : 0 <= r[2] /\ r[2] < nri /\ r[2] < r[3]
  /\ nri = 0 => sreads = {}

\* ---- the order of the claims -----------------------------------------------
\* C25: outer entries are handed out in counter order: a successful claim
\* starts where the counter stood, at or above the end of every range claimed
\* before it, so for a < b the claim covering a comes before the claim covering
\* b; a thread finishes the entries it claimed in increasing order (an entry of
\* a thread is finished only when all lower entries of that thread are, and the
\* entry index of a thread never decreases)
C25_ClaimsInCounterOrder ==
  [][/\ \A c \in claimed' \ claimed :
          /\ c.nn0 = count
          /\ \A d \in claimed : d.nn0 < c.nn0 /\
                \A a \in Range(d), b \in Range(c) : a < b
     /\ \A t \in Threads :
          /\ stack'[t].n >= stack[t].n
          /\ \A a, b \in UNION {Range(c) : c \in ClaimsOf(t)} :
                (a < b /\ nproc'[b] >= 1) => nproc[a] >= 1]_vars
\* entry 1 is finished by one thread while entry 0, claimed earlier by the
\* other thread, is still being worked on
C25_Witness ==
  /\ nri = 2 /\ nproc[1] = 1 /\ nproc[0] = 0
  /\ \E c, d \in claimed : c.thr # d.thr /\ 0 \in Range(c) /\ 1 \in Range(d)

\* ---- the cubic spline of the table -------------------------------------------
\* C26: each segment evaluated (dispersion, repulsion) yields the potential
\* VV = Y + eps*(F + G*eps + H*eps^2) and the force factor
\* FF = F + 2*G*eps + 3*H*eps^2 of its own four coefficients at the table
\* point of the pair, FF being the derivative with respect to eps of the cubic
\* VV; the energy accumulated is c6*VV(dispersion) + c12*VV(repulsion) and the
\* scalar force is formed from the sum c6*FF(dispersion) + c12*FF(repulsion)
C26_SplineValueAndDerivative ==
  LET n0 == tin.rt \div EpsUnit
      eps == tin.rt - n0 * EpsUnit
      Coef(seg) == LET off == IF seg = "dispersion" THEN 0 ELSE 4
                   IN [i \in 1..4 |-> tVFtab[8 * n0 + off + i - 1]]
      Eval(p, e) == p[1] + p[2] * e + p[3] * e * e + p[4] * e * e * e
      Deriv(p) == <<p[2], 2 * p[3], 3 * p[4], 0>>
  IN /\ \A i \in DOMAIN tseg :
          /\ tseg[i].seg = (IF i = 1 THEN "dispersion" ELSE "repulsion")
          /\ tseg[i].VV = Coef(tseg[i].seg)[1]
                + eps * (Coef(tseg[i].seg)[2] + Coef(tseg[i].seg)[3] * eps
                         + Coef(tseg[i].seg)[4] * eps * eps)
          /\ tseg[i].FF = Coef(tseg[i].seg)[2] + 2 * Coef(tseg[i].seg)[3] * eps
                + 3 * Coef(tseg[i].seg)[4] * eps * eps
          /\ tseg[i].VV = Eval(Coef(tseg[i].seg), eps)
          /\ tseg[i].FF = Eval(Deriv(Coef(tseg[i].seg)), eps)
     /\ tpc = "done" =>
          /\ Len(tseg) = 2
          /\ tVvdwtot = tin.V0 + tin.c6 * tseg[1].VV + tin.c12 * tseg[2].VV
          /\ tfs = 0 - (tin.c6 * tseg[1].FF + tin.c12 * tseg[2].FF) * tin.tsc * tin.rinv
\* a pair in the second table interval with a non-zero offset, whose cubic
\* and quadratic coefficients are non-zero in both segments
C26_Witness ==
  /\ tpc = "done" /\ tn0 = 8 /\ teps = 2
  /\ \A off \in {0, 4} : tVFtab[tn0 + off + 2] # 0 /\ tVFtab[tn0 + off + 3] # 0
  /\ tseg[1].FF # tseg[2].FF

\* ---- one thread against the pair-by-pair reference ---------------------------
\* the batch a list position falls into: the full batches of UNROLL, then the
\* pair, then the single one
BatchOf(k, q) ==
  LET nj == jindex[k + 1] - jindex[k]
      o == q - jindex[k]
      nfull == nj \div UNROLL
  IN IF o < nfull * UNROLL THEN o \div UNROLL
     ELSE IF o < nfull * UNROLL + 2 * ((nj \div 2) % 2) THEN nfull
     ELSE nfull + 1
BatchDistinct ==
  \A k \in 0..(nri - 1) : \A q1, q2 \in JRange(k) :
    (q1 # q2 /\ BatchOf(k, q1) = BatchOf(k, q2)) => jjnr[q1] # jjnr[q2]

\* C28: with one thread and the j indices of every batch pairwise distinct,
\* the force, shift-force and energy arrays left when the thread has returned
\* are those of the reference that adds the pairs of the list one at a time
\* (sums are exact in the model)
C28_SingleThreadMatchesScalar ==
  (nthreads = 1 /\ BatchDistinct /\ AllDone) =>
    /\ \A p \in Atoms : faction[1][p] = RefForce(p)
    /\ \A sh \in ShiftIdx : fshift[sh] = RefFshift(sh)
    /\ \A g \in Groups : Vvdw[g] = RefVvdw(g)
\* two entries of five pairs whose fifth j partner is the first one again: a
\* full batch and a single one update the same force slot
C28_Witness ==
  /\ nthreads = 1 /\ AllDone /\ BatchDistinct
  /\ nri = 2 /\ jindex[1] = UNROLL + 1 /\ jjnr[UNROLL] = jjnr[0]
  /\ RefForce(jjnr[0]) # InitForce(jjnr[0])
  /\ \E sh \in ShiftIdx : RefFshift(sh) # InitFshift(sh)

\* ---- the energy-only kernel against the force kernel --------------------------
\* the label of the energy-only kernel that corresponds to a label of the
\* force kernel
NfLabel(lbl) ==
  CASE lbl = "unroll_load" -> "unroll"
    [] lbl = "dopair_load1" -> "dopair"
    [] lbl = "dosingle_load" -> "dosingle"
    [] OTHER -> lbl

\* C29: run on the same arguments under the same schedule, the energy-only
\* kernel never changes the force array or the shift-force array, and after
\* every step of the schedule it has claimed the same work (counter, n, nn1),
\* stands at the same batch or tail of the same list position, and holds the
\* same energy array and the same iteration counts and counters as the
\* force kernel
C29_EnergyOnlyMatchesForceKernel ==
  /\ nffaction = [p \in Atoms |-> InitForce(p)]
  /\ nffshift = [sh \in ShiftIdx |-> InitFshift(sh)]
  /\ ~SyncActive =>
       /\ nfcount = count /\ nfVvdw = Vvdw
       /\ nfouteriter = outeriter /\ nfinneriter = inneriter
       /\ \A t \in Threads :
            /\ nfstack[t].n = stack[t].n /\ nfstack[t].nn1 = stack[t].nn1
            /\ nfstack[t].nouter = stack[t].nouter /\ nfstack[t].ninner = stack[t].ninner
            /\ nfstack[t].innerjjnr = stack[t].innerjjnr
            /\ pc[t] \notin ForceOnly =>
                 /\ nfpc[t] = NfLabel(pc[t])
                 /\ nfstack[t].Vvdwtot = stack[t].Vvdwtot
\* two threads have returned from both kernels after an entry with a full
\* batch and a single pair and an entry with a pair of partners
C29_Witness ==
  /\ nthreads = 2 /\ nri = 2 /\ AllDone /\ \A t \in Threads : nfpc[t] = "done"
  /\ Cardinality({c.thr : c \in {d \in claimed : Range(d) # {}}}) = 2
  /\ \A g \in Groups : nfVvdw[g] # InitVvdw(g)
  /\ nfinneriter > 0 /\ \E p \in Atoms : faction[1][p] # nffaction[p]

\* ---- the FFTW mutex ----------------------------------------------------------
\* C30: a thread inside a call of the FFTW library other than an execute
\* function (malloc, free, plan creation, plan destruction, cleanup) holds
\* big_fftw_mutex, so no two threads are inside such calls at once; a thread
\* inside an execute call does not hold the mutex
C30_NonExecuteCallsUnderMutex ==
  /\ \A t \in AllThreads : fpc[t] \in FNonExec => fmutex = t
  /\ \A t, u \in AllThreads : (t # u /\ fpc[t] \in FNonExec) => fpc[u] \notin FNonExec
  /\ \A t \in AllThreads : fpc[t] = "execute" => fmutex # t

InInit(t) ==
  \/ fpc[t] \in {"init_lock", "malloc_fft", "malloc_p1", "malloc_p2", "plan", "check",
                 "fatal", "e_free_p1", "e_free_fft", "free_p1", "free_p2", "fatal_lock",
                 "fatal_free_p1", "fatal_free_p2", "enomem_unlock", "ok_unlock",
                 "fatal_unlock", "fatal_unlock2"}
  \/ /\ fpc[t] \in {"destroy", "dp_lock", "destroy_plan", "dp_unlock", "df_lock",
                     "free_fft", "df_unlock"}
     /\ fcaller[t] = "init"
\* C32: gmx_fft_init_many_1d stores a handle in *pfft only on the return of 0:
\* inside the call and on a return of ENOMEM or -1 *pfft is null. On such an
\* error return every block the call allocated (handle, p1, p2) has been freed
\* exactly once and no other block has been freed; on the return of 0 the two
\* buffers have been freed once and the handle has not.
C32_HandleOnlyOnSuccess ==
  \A t \in AllThreads :
    /\ InInit(t) => fobj[t] = "null"
    /\ (fpc[t] = "ret" /\ fret[t] \in {"ENOMEM", "-1"}) =>
          /\ fobj[t] = "null"
          /\ \A b \in HeapBlocks : ffreed[t][b] = IF b \in falloc[t] THEN 1 ELSE 0
    /\ (fpc[t] = "ret" /\ fret[t] = "0") =>
          /\ fobj[t] = "set"
          /\ falloc[t] = HeapBlocks
          /\ ffreed[t] = [b \in HeapBlocks |-> IF b = "fft" THEN 0 ELSE 1]
\* one thread is back from a failed plan creation, another from a failed
\* allocation of p2
C32_Witness ==
  \E t, u \in AllThreads :
    /\ fpc[t] = "ret" /\ fret[t] = "-1" /\ falloc[t] = HeapBlocks
    /\ fpc[u] = "ret" /\ fret[u] = "ENOMEM" /\ falloc[u] = {"fft", "p1"}

\* threads none of whose claims came back empty
NoEmptyClaim == {t \in Threads : \A c \in ClaimsOf(t) : c.nn1 > c.nn0}
C33_BalancedThenEmpty ==
  (ypc \in {"destroyed", "assert_failed"} /\ yopen = 0 /\ ~ybad) =>
     (ystack = <<>> /\ ypc = "destroyed")

\* the stack sk begins with the stack e
StartsWith(sk, e) == Len(e) <= Len(sk) /\ SubSeq(sk, 1, Len(e)) = e
====
